---- MODULE Spec2Model ----
(***************************************************************************)
(* Fox and Hens (henne-fuchs): the rule engine of src/app/play/board.ts    *)
(* (class Board and class Cell, first definition in the file, the one with *)
(* attemptMove) as a state machine.                                        *)
(*                                                                         *)
(* A Point is the pair <<x, y>>.  Point.toString() gives `${x}-${y}`, the  *)
(* key of the board Map; on integer pairs that string is injective and the *)
(* keys present are exactly those of the 33 cells the constructor adds, so *)
(* board.has(p.toString()) is p \in Cells and board.get(...) is board[p].  *)
(***************************************************************************)
EXTENDS Integers, Sequences, FiniteSets, TLC

VARIABLES
    board,          \* Board.board: cell -> State
    playersTurn,    \* Board.playersTurn
    winingReason,   \* Board.winingReason (NoReason when undefined)
    lastOp,         \* history: the operation applied last
    result,         \* history: what the last attemptMove returned
    steps,          \* history: number of operations applied so far
    chickenHistory, \* the caller's recent fingerprints (Play.chickenHistory), most recent first
    ai,             \* the fields of Play in a one-player game: see PlayState, NoAi
    online,         \* the online session of Play: see Offline
    peer            \* PeerConnectionService: see IdlePeer

boardVars == <<board, playersTurn, winingReason>>
vars == <<board, playersTurn, winingReason, lastOp, result, steps, chickenHistory, ai,
          online, peer>>

---------------------------------------------------------------------------
(* Bounds of the model *)

MaxFoxes == 2
MaxChickens == 3
MaxSteps == 1

---------------------------------------------------------------------------
(* enum State, enum Player, undefined *)

FOX == "FOX"
CHICKEN == "CHICKEN"
EMPTY == "EMPTY"
State == {FOX, CHICKEN, EMPTY}

PlayerChicken == "Player.CHICKEN"
PlayerFox == "Player.FOX"
Player == {PlayerChicken, PlayerFox}

\* `undefined` where a Point is expected (selectedPiece, from): the empty tuple,
\* which equals no <<x, y>>.
Undefined == <<>>

\* The value of `ai` where no Play is modelled: no computer player, no effect
\* due, and in `moves` the move a caller of the search holds before it hands
\* it to attemptMove, if any.
NoAi == [aiPlayer |-> "none", aiInProgress |-> FALSE, moves |-> <<>>, scheduled |-> FALSE]

\* `undefined` where an identifier (a game id, a timer, a connection) is
\* expected; identifiers are positive numbers.
NoId == 0

\* A value of the signal PeerConnectionService.messages or a message on the
\* data channel (online-protocol.ts:10-34); type "none" is `undefined`, and
\* the fields a type does not have are left at their blank values.
Message(type, gameId, seq, from, to) ==
    [type |-> type, gameId |-> gameId, seq |-> seq, from |-> from, to |-> to]
NoData == Message("none", NoId, 0, <<0, 0>>, <<0, 0>>)

(* The fields of Play for an online game as the constructor leaves them
   (part_002:38-58) and what the component has in flight:
   onlineRole     settings().onlineRole, "none" without online settings;
   selectedPiece  the signal selectedPiece, Undefined when it is not set;
   effectDue      the effect that consumes messages is due to run: a signal
                  it reads has changed since it ran last;
   tasks          calls of animateThenAttemptMove and applyRemoteMove that
                  wait for a timer, in the order they were started;
   sent           history: the messages handed to the data channel;
   accepted       history: the seq of every move message that passed the
                  check of applyRemoteMove;
   restarts       timers of scheduleRestartToSelect that are pending. *)
Offline ==
    [isOnlineGame |-> FALSE, onlineRole |-> "none", localPlaysAs |-> "undefined",
     onlineGameId |-> NoId, localSeq |-> 0, lastRemoteSeq |-> -1,
     hostHelloSent |-> FALSE, disconnectToastShown |-> FALSE,
     selectedPiece |-> Undefined, effectDue |-> FALSE, uiLocked |-> FALSE,
     tasks |-> <<>>, sent |-> <<>>, accepted |-> <<>>, restarts |-> 0]

(* PeerConnectionService as constructed (peer-connection.service.ts:33-57)
   and what it has in flight:
   peer           this.peer, NoId if undefined;
   reconnectTimer the handle kept in this.reconnectTimer, NoId if undefined;
   timers         the timers of reconnectLoop that are pending;
   connection     this.connection, NoId if undefined;
   messages       the signal messages, NoData if undefined;
   flows          calls of host, join and tryReconnectOnce that wait at an
                  await, in the order in which they began to wait;
   stale          the connections on which a waitForConnectionOpen whose
                  call has timed out still listens for 'close' and 'error';
   peers          the Peers made by createPeer, each with its handlers;
   handlers       the connections that carry the data and drop handlers;
   sent           history: the connections on which the host's conn.send of
                  the handshake message returned;
   received       history: the connections on which a handshake message
                  with a number as hostPlaysAs came in;
   reports        history: every report of 'connected', with its connection
                  and the side that reported;
   disconnected   history: disconnect() has been called, and neither host()
                  nor join() since;
   created        identifiers handed out so far. *)
IdlePeer ==
    [status |-> "idle", role |-> "none", manualDisconnect |-> FALSE,
     reconnecting |-> FALSE, reconnectAttempt |-> 0, reconnectTimer |-> NoId,
     timers |-> {}, peer |-> NoId, connection |-> NoId, messages |-> NoData,
     flows |-> <<>>, stale |-> {}, peers |-> {}, handlers |-> {},
     sent |-> {}, received |-> {}, reports |-> {},
     disconnected |-> FALSE, created |-> 0]

\* `undefined` where a string is expected (winingReason, message).
NoReason == "undefined"
NoMessage == "undefined"
ChickensWin == "All chickens are in the stall! Chickens win!"
ChickensLose == "Too many chickens died! Chickens lose!"
FoxesLose == "No more foxes! Foxes lose!"

BoardSize == 7
StallTarget == 9
MinChickens == 9

---------------------------------------------------------------------------
(* Geometry *)

\* The constructor skips the four 2x2 corner blocks.
Valid(x, y) ==
    /\ x \in 0..(BoardSize - 1)
    /\ y \in 0..(BoardSize - 1)
    /\ ~((x <= 1 \/ x >= 5) /\ (y <= 1 \/ y >= 5))

Cells == {p \in (0..(BoardSize - 1)) \X (0..(BoardSize - 1)) : Valid(p[1], p[2])}

RECURSIVE CellsFrom(_, _)
\* board.values(): Map insertion order, x outer loop, y inner loop.
CellsFrom(x, y) ==
    IF x >= BoardSize THEN <<>>
    ELSE IF y >= BoardSize THEN CellsFrom(x + 1, 0)
    ELSE (IF Valid(x, y) THEN << <<x, y>> >> ELSE <<>>) \o CellsFrom(x, y + 1)

CellSeq == CellsFrom(0, 0)

\* Board.startStateFor
startStateFor(p) ==
    IF p[2] >= 3 THEN CHICKEN
    ELSE IF p[2] = 2 /\ (p[1] = 2 \/ p[1] = 4) THEN FOX
    ELSE EMPTY

StartBoard == [p \in Cells |-> startStateFor(p)]

\* Cell.getConnectedCells (board.ts:37-54), in the order the points are pushed.
getConnectedCells(p, onlyChicken) ==
    LET x == p[1]
        y == p[2]
        base == << <<x - 1, y>>, <<x + 1, y>>, <<x, y - 1>> >>
        down == IF ~onlyChicken THEN << <<x, y + 1>> >> ELSE <<>>
        diag == IF ((x % 2 = 0 /\ y % 2 = 0) \/ (x % 2 # 0 /\ y % 2 # 0)) /\ ~onlyChicken
                THEN << <<x + 1, y + 1>>, <<x - 1, y + 1>>,
                        <<x + 1, y - 1>>, <<x - 1, y - 1>> >>
                ELSE <<>>
        InBoard(q) == q \in Cells
    IN SelectSeq(base \o down \o diag, InBoard)

\* Cell.getConnectedCells as defined the second time in the file
\* (board.ts:380-397): the condition of the diagonals reads
\* (x%2 == 0 && y%2 == 0) || (x%2 != 0 && y%2 != 0) && !onlyChicken.
getConnectedCellsSecond(p, onlyChicken) ==
    LET x == p[1]
        y == p[2]
        base == << <<x - 1, y>>, <<x + 1, y>>, <<x, y - 1>> >>
        down == IF ~onlyChicken THEN << <<x, y + 1>> >> ELSE <<>>
        diag == IF (x % 2 = 0 /\ y % 2 = 0) \/ ((x % 2 # 0 /\ y % 2 # 0) /\ ~onlyChicken)
                THEN << <<x + 1, y + 1>>, <<x - 1, y + 1>>,
                        <<x + 1, y - 1>>, <<x - 1, y - 1>> >>
                ELSE <<>>
        InBoard(q) == q \in Cells
    IN SelectSeq(base \o down \o diag, InBoard)

---------------------------------------------------------------------------
(* Counters (computed signals) *)

chickens(b) == Cardinality({p \in Cells : b[p] = CHICKEN})
foxes(b) == Cardinality({p \in Cells : b[p] = FOX})
chickensInStall(b) ==
    Cardinality({p \in Cells :
        /\ b[p] = CHICKEN
        /\ (p[2] <= 1 \/ (p[2] = 2 /\ p[1] >= 2 /\ p[1] <= 4))})

---------------------------------------------------------------------------
(* Jump enumeration: Cell.getJumpsCells (board.ts:56-88) *)

\* A call either returns its options or never returns normally.
Returned(options) == [threw |-> FALSE, opts |-> options]
RangeError == [threw |-> TRUE, opts |-> <<>>]

RECURSIVE getJumpsCells(_, _, _, _, _)
RECURSIVE JumpLoop(_, _, _, _, _, _, _, _)

(* The body of `for (let connectedCell of points)`.  `points` is the array
   being iterated and the loop body pushes jumpPoint onto it, so the iterator
   also visits every pushed landing; i is the iterator's index.
   `entered` is not a parameter of the program: it is the set of cells whose
   getJumpsCells call is on the call stack with the very board b.  A nested
   call on a cell of `entered` with the same board repeats its caller's
   computation without end; the program then fails with RangeError (call
   stack exceeded), which no caller up the chain catches. *)
JumpLoop(b, this, toBeRemovedChickens, from, entered, points, i, options) ==
    IF i > Len(points) THEN Returned(options)
    ELSE
        LET connectedCell == points[i]
            deltaX == connectedCell[1] - this[1]
            deltaY == connectedCell[2] - this[2]
            jumpPoint == <<connectedCell[1] + deltaX, connectedCell[2] + deltaY>>
        IN IF jumpPoint \in Cells /\ b[jumpPoint] = EMPTY
           THEN
               LET clonedBoard == [b EXCEPT ![connectedCell] = EMPTY]
                   origin == IF from = Undefined THEN this ELSE from
                   jumpsCells ==
                       getJumpsCells(clonedBoard, jumpPoint, <<connectedCell>>, origin,
                                     IF clonedBoard = b THEN entered \cup {this} ELSE {})
                   option(g) ==
                       [from |-> origin,
                        good |-> g,
                        toBeRemovedChickens |-> <<connectedCell>> \o toBeRemovedChickens,
                        end |-> jumpPoint]
               IN IF jumpsCells.threw THEN RangeError
                  ELSE JumpLoop(b, this, toBeRemovedChickens, from, entered,
                                Append(points, jumpPoint), i + 1,
                                IF Len(jumpsCells.opts) > 0
                                THEN (options \o <<option(FALSE)>>) \o jumpsCells.opts
                                ELSE Append(options, option(TRUE)))
           ELSE JumpLoop(b, this, toBeRemovedChickens, from, entered, points, i + 1, options)

getJumpsCells(b, this, toBeRemovedChickens, from, entered) ==
    IF this \in entered THEN RangeError
    ELSE
        LET IsChicken(q) == b[q] = CHICKEN
            points == SelectSeq(getConnectedCells(this, FALSE), IsChicken)
        IN JumpLoop(b, this, toBeRemovedChickens, from, entered, points, 1, <<>>)

\* Board.getJumps (board.ts:189-191)
\* Variant of getJumps that drops the options tagged good = false.
getJumps_TerminalOnly(b, point) ==
    LET IsGood(o) == o.good
        r == getJumpsCells(b, point, <<>>, Undefined, {})
    IN IF r.threw THEN r ELSE Returned(SelectSeq(r.opts, IsGood))

getJumps(b, point) == getJumpsCells(b, point, <<>>, Undefined, {})

\* Board.getMoves (board.ts:184-187)
getMoves(b, turn, point) ==
    LET IsEmpty(q) == b[q] = EMPTY
    IN SelectSeq(getConnectedCells(point, turn = PlayerChicken), IsEmpty)

RECURSIVE AllJumpsFrom(_, _)
\* The loop of Board.getAllJumps over board.values(), from index i on.
AllJumpsFrom(b, i) ==
    IF i > Len(CellSeq) THEN Returned(<<>>)
    ELSE IF b[CellSeq[i]] # FOX THEN AllJumpsFrom(b, i + 1)
    ELSE LET options == getJumpsCells(b, CellSeq[i], <<>>, Undefined, {})
             rest == AllJumpsFrom(b, i + 1)
         IN IF options.threw \/ rest.threw THEN RangeError
            ELSE Returned(options.opts \o rest.opts)

\* Board.getAllJumps (board.ts:251-267)
getAllJumps(b, turn) ==
    IF turn = PlayerChicken THEN Returned(<<>>) ELSE AllJumpsFrom(b, 1)

RECURSIVE AllMovesFrom(_, _, _)
AllMovesFrom(b, turn, i) ==
    IF i > Len(CellSeq) THEN <<>>
    ELSE IF b[CellSeq[i]] # FOX THEN AllMovesFrom(b, turn, i + 1)
    ELSE getMoves(b, turn, CellSeq[i]) \o AllMovesFrom(b, turn, i + 1)

\* Board.getAllMoves (board.ts:269-282)
RECURSIVE AllMovesOfSide(_, _, _)
AllMovesOfSide(b, turn, i) ==
    IF i > Len(CellSeq) THEN <<>>
    ELSE IF b[CellSeq[i]] # (IF turn = PlayerChicken THEN CHICKEN ELSE FOX)
         THEN AllMovesOfSide(b, turn, i + 1)
    ELSE getMoves(b, turn, CellSeq[i]) \o AllMovesOfSide(b, turn, i + 1)

\* Variant of getAllMoves that collects the moves of the side to move.
getAllMoves_BothSides(b, turn) == AllMovesOfSide(b, turn, 1)

getAllMoves(b, turn) ==
    IF turn = PlayerChicken THEN <<>> ELSE AllMovesFrom(b, turn, 1)

---------------------------------------------------------------------------
(* Mutations.  S is the Board's state, [board, playersTurn, winingReason]. *)

\* `this.board.get(p.toString())?.getWritableState().set(v)`
SetCell(b, p, v) == IF p \in Cells THEN [b EXCEPT ![p] = v] ELSE b

\* Board.changePlayer (board.ts:207-211)
changePlayer(turn) == IF turn = PlayerChicken THEN PlayerFox ELSE PlayerChicken

\* Board.moveTo (board.ts:193-205)
\* Variant of moveTo that looks at the stall before the piece is moved.
moveTo_ChecksBeforeMoving(S, selectedPiece, to) ==
    IF selectedPiece = Undefined THEN S
    ELSE
        LET b1 == SetCell(S.board, selectedPiece, EMPTY)
            b2 == SetCell(b1, to, IF S.playersTurn = PlayerChicken THEN CHICKEN ELSE FOX)
        IN [board |-> b2,
            playersTurn |-> changePlayer(S.playersTurn),
            winingReason |-> IF chickensInStall(S.board) >= StallTarget
                             THEN ChickensWin ELSE S.winingReason]

\* Variant of moveTo that sets the outcome to what the stall shows, clearing
\* an outcome recorded before.
moveTo_RecomputesOutcome(S, selectedPiece, to) ==
    IF selectedPiece = Undefined THEN S
    ELSE
        LET b1 == SetCell(S.board, selectedPiece, EMPTY)
            b2 == SetCell(b1, to, IF S.playersTurn = PlayerChicken THEN CHICKEN ELSE FOX)
        IN [board |-> b2,
            playersTurn |-> changePlayer(S.playersTurn),
            winingReason |-> IF chickensInStall(b2) >= StallTarget
                             THEN ChickensWin ELSE NoReason]

moveTo(S, selectedPiece, to) ==
    IF selectedPiece = Undefined THEN S
    ELSE
        LET b1 == SetCell(S.board, selectedPiece, EMPTY)
            b2 == SetCell(b1, to, IF S.playersTurn = PlayerChicken THEN CHICKEN ELSE FOX)
        IN [board |-> b2,
            playersTurn |-> changePlayer(S.playersTurn),
            winingReason |-> IF chickensInStall(b2) >= StallTarget
                             THEN ChickensWin ELSE S.winingReason]

RECURSIVE RemoveAll(_, _, _)
\* jumpOption.toBeRemovedChickens.forEach(point => ... set(State.EMPTY))
RemoveAll(b, points, i) ==
    IF i > Len(points) THEN b
    ELSE RemoveAll(SetCell(b, points[i], EMPTY), points, i + 1)

\* Board.jumpTo (board.ts:213-230)
\* Variant of jumpTo that counts the chickens before the capture.
jumpTo_CountsBeforeCapture(S, selectedPiece, jumpOption) ==
    IF selectedPiece = Undefined THEN S
    ELSE
        LET b1 == RemoveAll(S.board, jumpOption.toBeRemovedChickens, 1)
            b2 == SetCell(b1, selectedPiece, EMPTY)
            b3 == SetCell(b2, jumpOption.end, FOX)
        IN [board |-> b3,
            playersTurn |-> changePlayer(S.playersTurn),
            winingReason |-> IF chickens(S.board) < MinChickens
                             THEN ChickensLose ELSE S.winingReason]

jumpTo(S, selectedPiece, jumpOption) ==
    IF selectedPiece = Undefined THEN S
    ELSE
        LET b1 == RemoveAll(S.board, jumpOption.toBeRemovedChickens, 1)
            b2 == [b1 EXCEPT ![selectedPiece] = EMPTY]
            b3 == [b2 EXCEPT ![jumpOption.end] = FOX]
        IN [board |-> b3,
            playersTurn |-> changePlayer(S.playersTurn),
            winingReason |-> IF chickens(b3) < MinChickens
                             THEN ChickensLose ELSE S.winingReason]

\* Board.punish (board.ts:238-244)
\* Variant of punish that counts the foxes before the removal.
punish_CountsBeforeRemoval(S, point) ==
    LET b1 == SetCell(S.board, point, EMPTY)
    IN [board |-> b1,
        playersTurn |-> changePlayer(S.playersTurn),
        winingReason |-> IF foxes(S.board) < 1 THEN FoxesLose ELSE S.winingReason]

punish(S, point) ==
    LET b1 == SetCell(S.board, point, EMPTY)
    IN [board |-> b1,
        playersTurn |-> changePlayer(S.playersTurn),
        winingReason |-> IF foxes(b1) < 1 THEN FoxesLose ELSE S.winingReason]

\* Board.punishForJump (board.ts:232-236)
\* Variant of punishForJump that only passes the turn and leaves the fox.
punishForJump_KeepsFox(S, selectedPiece, jumpOption) ==
    IF selectedPiece = Undefined THEN S
    ELSE [S EXCEPT !.playersTurn = changePlayer(S.playersTurn)]

punishForJump(S, selectedPiece, jumpOption) ==
    IF selectedPiece = Undefined THEN S ELSE punish(S, selectedPiece)

\* Variant of punishForNotJumping that empties the landing of the first entry.
punishForNotJumping_Landing(S, jumpOptions) == punish(S, jumpOptions[1].end)

\* Board.punishForNotJumping (board.ts:246-249)
punishForNotJumping(S, jumpOptions) == punish(S, jumpOptions[1].from)

\* Board.reset (board.ts:165-172)
\* Variant of reset that leaves the side to move as it is.
reset_KeepsTurn(S) ==
    [board |-> [p \in Cells |-> startStateFor(p)],
     playersTurn |-> S.playersTurn,
     winingReason |-> NoReason]

reset(S) ==
    [board |-> [p \in Cells |-> startStateFor(p)],
     playersTurn |-> PlayerChicken,
     winingReason |-> NoReason]

---------------------------------------------------------------------------
(* Board.attemptMove (board.ts:292-329) *)

\* The dash of the first message is an em dash in the source.
MandatoryMessage == "Nice try - jumping is mandatory when available."
KeepJumpingMessage == "You must keep jumping until the move is finished."

\* Array.prototype.find on availableJumps: the index of the first option whose
\* end is `to`, 0 when there is none.
FindJump(availableJumps, to) ==
    LET hits == {i \in 1..Len(availableJumps) : availableJumps[i].end = to}
    IN IF hits = {} THEN 0 ELSE CHOOSE i \in hits : \A j \in hits : i <= j

\* Variant of attemptMove whose step-move branch ignores allJumps.
\* Variant of attemptMove whose 'ignored' branch passes the turn.
attemptMove_IgnoredPassesTurn(S, selectedPiece, to, availableMoves, availableJumps, allJumps) ==
    LET validMove == \E i \in 1..Len(availableMoves) : availableMoves[i] = to
        k == FindJump(availableJumps, to)
    IN IF validMove /\ Len(allJumps) = 0
       THEN [state |-> moveTo(S, selectedPiece, to),
             outcome |-> "moved", message |-> NoMessage]
       ELSE IF validMove /\ Len(allJumps) # 0
       THEN [state |-> punishForNotJumping(S, allJumps),
             outcome |-> "punished", message |-> MandatoryMessage]
       ELSE IF k # 0 /\ availableJumps[k].good
       THEN [state |-> jumpTo(S, selectedPiece, availableJumps[k]),
             outcome |-> "jumped", message |-> NoMessage]
       ELSE IF k # 0 /\ ~availableJumps[k].good
       THEN [state |-> punishForJump(S, selectedPiece, availableJumps[k]),
             outcome |-> "punished", message |-> KeepJumpingMessage]
       ELSE [state |-> [S EXCEPT !.playersTurn = changePlayer(S.playersTurn)],
             outcome |-> "ignored", message |-> NoMessage]

\* Variant of attemptMove whose step-move branch ignores allJumps.
attemptMove_MovesDespiteJumps(S, selectedPiece, to, availableMoves, availableJumps, allJumps) ==
    LET validMove == \E i \in 1..Len(availableMoves) : availableMoves[i] = to
        k == FindJump(availableJumps, to)
    IN IF validMove
       THEN [state |-> moveTo(S, selectedPiece, to),
             outcome |-> "moved", message |-> NoMessage]
       ELSE IF k # 0 /\ availableJumps[k].good
       THEN [state |-> jumpTo(S, selectedPiece, availableJumps[k]),
             outcome |-> "jumped", message |-> NoMessage]
       ELSE IF k # 0 /\ ~availableJumps[k].good
       THEN [state |-> punishForJump(S, selectedPiece, availableJumps[k]),
             outcome |-> "punished", message |-> KeepJumpingMessage]
       ELSE [state |-> S, outcome |-> "ignored", message |-> NoMessage]

attemptMove(S, selectedPiece, to, availableMoves, availableJumps, allJumps) ==
    LET validMove == \E i \in 1..Len(availableMoves) : availableMoves[i] = to
        k == FindJump(availableJumps, to)
    IN IF validMove /\ Len(allJumps) = 0
       THEN [state |-> moveTo(S, selectedPiece, to),
             outcome |-> "moved", message |-> NoMessage]
       ELSE IF validMove /\ Len(allJumps) # 0
       THEN [state |-> punishForNotJumping(S, allJumps),
             outcome |-> "punished", message |-> MandatoryMessage]
       ELSE IF k # 0 /\ availableJumps[k].good
       THEN [state |-> jumpTo(S, selectedPiece, availableJumps[k]),
             outcome |-> "jumped", message |-> NoMessage]
       ELSE IF k # 0 /\ ~availableJumps[k].good
       THEN [state |-> punishForJump(S, selectedPiece, availableJumps[k]),
             outcome |-> "punished", message |-> KeepJumpingMessage]
       ELSE [state |-> S, outcome |-> "ignored", message |-> NoMessage]

---------------------------------------------------------------------------
(* The state machine *)

BoardState == [board |-> board, playersTurn |-> playersTurn, winingReason |-> winingReason]

NoResult == [outcome |-> "none", message |-> NoMessage]
Thrown == [outcome |-> "RangeError", message |-> NoMessage]

\* Test set-ups start from a board built cell by cell (_setStateForTest,
\* createEmptySnapshot): foxes on F, chickens on C, every other cell Empty.
Place(F, C) ==
    [p \in Cells |-> IF p \in F THEN FOX ELSE IF p \in C THEN CHICKEN ELSE EMPTY]

\* The cells on which the set-ups place pieces: the central 3x3 block.
Region == {p \in Cells : p[1] \in 2..4 /\ p[2] \in 2..4}

ScenarioBoards ==
    {Place(F, C) : <<F, C>> \in
        {fc \in (SUBSET Region) \X (SUBSET Region) :
            /\ fc[1] \cap fc[2] = {}
            /\ Cardinality(fc[1]) <= MaxFoxes
            /\ Cardinality(fc[2]) <= MaxChickens}}

\* Set-ups reaching outside the central block: a fox at (3,5) next to a
\* chicken at (2,4), and chickens at (2,3) and (4,3) on the row below.
LoopBoards ==
    {Place(F, C) : <<F, C>> \in
        (SUBSET {<<3, 5>>}) \X (SUBSET {<<2, 4>>, <<2, 3>>, <<4, 3>>})}

\* The six cells of the two top rows (part of the stall) and the six cells of
\* the two bottom rows.
TopRows == {p \in Cells : p[2] <= 1}
BottomRows == {p \in Cells : p[2] >= 5}

\* Set-ups around the two thresholds of the rules: one fox and three chickens
\* in the central block, with six more chickens either on the bottom rows
\* (nine chickens alive) or on the top rows (eight or nine of the nine stall
\* cells can be taken).
ThresholdBoards ==
    {Place(fc[1], fc[2] \cup back) :
        fc \in {gd \in (SUBSET Region) \X (SUBSET Region) :
                    /\ gd[1] \cap gd[2] = {}
                    /\ Cardinality(gd[1]) = 1
                    /\ Cardinality(gd[2]) = MaxChickens},
        back \in {TopRows, BottomRows}}

Init ==
    /\ board \in (({StartBoard} \cup ScenarioBoards) \cup LoopBoards) \cup ThresholdBoards
    /\ playersTurn \in Player
    /\ winingReason = NoReason
    /\ lastOp = "new"
    /\ result = NoResult
    /\ steps = 0
    /\ chickenHistory = <<>>
    /\ ai = NoAi
    /\ online = Offline
    /\ peer = IdlePeer

Becomes(S) ==
    /\ board' = S.board
    /\ playersTurn' = S.playersTurn
    /\ winingReason' = S.winingReason

(* One direct call of Board.attemptMove (board.ts:292-327), a synchronous
   method of the Board: the three lists are what getMoves, getJumps and
   getAllJumps return on the Board as it stands for the cell `shown`, as in
   the calls of the Board's tests and of Play.clickedMove of part_001:158-175,
   which passes the lists of the cell clicked last.  selectedPiece is that
   cell, or undefined (the parameter's type is Point | undefined).  When a
   query fails, attemptMove is never reached. *)
attemptMoveCall(selectedPiece, shown) ==
    /\ \E availableMoves \in {getMoves(board, playersTurn, shown)},
          availableJumps \in {getJumps(board, shown)},
          allJumps \in {getAllJumps(board, playersTurn)} :
          IF availableJumps.threw \/ allJumps.threw
          THEN /\ UNCHANGED boardVars
               /\ lastOp' = "getJumps"
               /\ result' = Thrown
          ELSE \E r \in {attemptMove(BoardState, selectedPiece, to, availableMoves,
                                     availableJumps.opts, allJumps.opts) : to \in Cells} :
                  /\ Becomes(r.state)
                  /\ lastOp' = "attemptMove"
                  /\ result' = [outcome |-> r.outcome, message |-> r.message]
    /\ steps' = steps + 1
    /\ UNCHANGED <<chickenHistory, ai, online, peer>>

\* One such call within the bound on the number of operations.
AttemptMove(selectedPiece, shown) ==
    /\ steps < MaxSteps
    /\ attemptMoveCall(selectedPiece, shown)

\* Board.moveTo called directly with a destination getMoves offers.
moveToCall(selectedPiece) ==
    /\ \E availableMoves \in {getMoves(board, playersTurn, selectedPiece)} :
          \E i \in 1..Len(availableMoves) :
              Becomes(moveTo(BoardState, selectedPiece, availableMoves[i]))
    /\ lastOp' = "moveTo"
    /\ result' = NoResult
    /\ steps' = steps + 1
    /\ UNCHANGED <<chickenHistory, ai, online, peer>>

\* One such call within the bound on the number of operations.
MoveTo(selectedPiece) ==
    /\ steps < MaxSteps
    /\ moveToCall(selectedPiece)

\* Board.jumpTo called directly with an option getJumps offers.
jumpToCall(selectedPiece) ==
    /\ \E availableJumps \in {getJumps(board, selectedPiece)} :
          /\ ~availableJumps.threw
          /\ \E k \in 1..Len(availableJumps.opts) :
                 Becomes(jumpTo(BoardState, selectedPiece, availableJumps.opts[k]))
    /\ lastOp' = "jumpTo"
    /\ result' = NoResult
    /\ steps' = steps + 1
    /\ UNCHANGED <<chickenHistory, ai, online, peer>>

\* One such call within the bound on the number of operations.
JumpTo(selectedPiece) ==
    /\ steps < MaxSteps
    /\ jumpToCall(selectedPiece)

\* Board.punishForJump called directly with an option getJumps offers.
punishForJumpCall(selectedPiece) ==
    /\ \E availableJumps \in {getJumps(board, selectedPiece)} :
          /\ ~availableJumps.threw
          /\ \E k \in 1..Len(availableJumps.opts) :
                 Becomes(punishForJump(BoardState, selectedPiece, availableJumps.opts[k]))
    /\ lastOp' = "punishForJump"
    /\ result' = NoResult
    /\ steps' = steps + 1
    /\ UNCHANGED <<chickenHistory, ai, online, peer>>

\* One such call within the bound on the number of operations.
PunishForJump(selectedPiece) ==
    /\ steps < MaxSteps
    /\ punishForJumpCall(selectedPiece)

\* Board.punishForNotJumping called directly with what getAllJumps returns.
punishForNotJumpingCall ==
    /\ \E allJumps \in {getAllJumps(board, playersTurn)} :
          /\ ~allJumps.threw
          /\ Len(allJumps.opts) > 0
          /\ Becomes(punishForNotJumping(BoardState, allJumps.opts))
    /\ lastOp' = "punishForNotJumping"
    /\ result' = NoResult
    /\ steps' = steps + 1
    /\ UNCHANGED <<chickenHistory, ai, online, peer>>

\* One such call within the bound on the number of operations.
PunishForNotJumping ==
    /\ steps < MaxSteps
    /\ punishForNotJumpingCall

\* Board.reset: a new game.
Reset ==
    /\ Becomes(reset(BoardState))
    /\ lastOp' = "reset"
    /\ result' = NoResult
    /\ steps' = 0
    /\ UNCHANGED <<chickenHistory, ai, online, peer>>

\* The cells whose options are asked for: those the set-ups place pieces on.
Sources == Region

Next ==
    \/ \E shown \in Sources : AttemptMove(shown, shown)
    \/ \E shown \in Sources : AttemptMove(Undefined, shown)
    \/ \E selectedPiece \in Sources : MoveTo(selectedPiece)
    \/ \E selectedPiece \in Sources : JumpTo(selectedPiece)
    \/ \E selectedPiece \in Sources : PunishForJump(selectedPiece)
    \/ PunishForNotJumping
    \/ Reset

Spec == Init /\ [][Next]_vars

---------------------------------------------------------------------------
(* The search engine: board-matrix.ts and BoardMatrixService.  A snapshot is
   its states array, a function from the 49 slots to states; scores are counted in
   halves (twice the number the code computes), because scoreForChickens adds
   countChickensInStall * 0.5. *)

PositiveInfinity == 1000000
NegativeInfinity == -1000000

Min(a, b) == IF a <= b THEN a ELSE b
Max(a, b) == IF a >= b THEN a ELSE b

\* idx (board-matrix.ts:24-26): the slot of cell p in the 49-slot arrays.
idx(p) == p[2] * BoardSize + p[1]

\* isValidCell (board-matrix.ts:29-32)
isValidCell(x, y) ==
    IF x < 0 \/ x >= BoardSize \/ y < 0 \/ y >= BoardSize THEN FALSE
    ELSE ~((x <= 1 \/ x >= 5) /\ (y <= 1 \/ y >= 5))

\* createEmptySnapshot (board-matrix.ts:34-52): the states array, EMPTY in
\* every slot.
createEmptySnapshot == [i \in 0..(BoardSize * BoardSize - 1) |-> EMPTY]

\* BoardMatrixService.createSnapshot (part_003:32-43): the slot of every valid
\* cell takes the cell's state; the other slots stay EMPTY.
createSnapshot(b) ==
    [i \in 0..(BoardSize * BoardSize - 1) |->
        IF isValidCell(i % BoardSize, i \div BoardSize)
        THEN b[<<i % BoardSize, i \div BoardSize>>]
        ELSE createEmptySnapshot[i]]

RECURSIVE RowsFrom(_, _)
\* The scan "for y ... for x ..." over the valid cells.
RowsFrom(x, y) ==
    IF y >= BoardSize THEN <<>>
    ELSE IF x >= BoardSize THEN RowsFrom(0, y + 1)
    ELSE (IF Valid(x, y) THEN << <<x, y>> >> ELSE <<>>) \o RowsFrom(x + 1, y)

RowSeq == RowsFrom(0, 0)

isStallCell(p) == p[2] <= 1 \/ (p[2] = 2 /\ p[1] >= 2 /\ p[1] <= 4)

countChickensAlive(snap) == Cardinality({p \in Cells : snap[idx(p)] = CHICKEN})

countChickensInStall(snap) ==
    Cardinality({p \in Cells : isStallCell(p) /\ snap[idx(p)] = CHICKEN})

\* evaluate (board-matrix.ts:104-110), in halves.
evaluate(snap) ==
    IF countChickensAlive(snap) < 9 THEN 0
    ELSE IF countChickensInStall(snap) = 9 THEN 2 * 1000
    ELSE 2 * (countChickensAlive(snap) * 2 + countChickensInStall(snap) * 3)

\* getConnectedPoints (board-matrix.ts:121-141), in the order pushed.
getConnectedPoints(p, onlyChicken) ==
    LET x == p[1]
        y == p[2]
        first == << <<x - 1, y>>, <<x + 1, y>>, <<x, y - 1>> >>
        below == IF ~onlyChicken THEN << <<x, y + 1>> >> ELSE <<>>
        sameParity == (x % 2 = 0 /\ y % 2 = 0) \/ (x % 2 # 0 /\ y % 2 # 0)
        diagonals == IF sameParity /\ ~onlyChicken
                     THEN << <<x + 1, y + 1>>, <<x - 1, y + 1>>,
                             <<x + 1, y - 1>>, <<x - 1, y - 1>> >>
                     ELSE <<>>
        inBoundsAndValid(q) == q \in Cells
    IN SelectSeq(first \o below \o diagonals, inBoundsAndValid)

getMovesForChicken(snap, from) ==
    IF from \notin Cells THEN <<>>
    ELSE IF snap[idx(from)] # CHICKEN THEN <<>>
    ELSE LET isEmpty(q) == snap[idx(q)] = EMPTY
         IN SelectSeq(getConnectedPoints(from, TRUE), isEmpty)

RECURSIVE getFoxJumpsInternal(_, _, _, _)
RECURSIVE FoxJumpLoop(_, _, _, _, _, _)
\* The loop "for (const mid of adjacentChickens)" of getFoxJumpsInternal.
FoxJumpLoop(snap, p, capturedSoFar, from, adjacentChickens, i) ==
    IF i > Len(adjacentChickens) THEN <<>>
    ELSE LET mid == adjacentChickens[i]
             landing == <<mid[1] + (mid[1] - p[1]), mid[2] + (mid[2] - p[2])>>
             rest == FoxJumpLoop(snap, p, capturedSoFar, from, adjacentChickens, i + 1)
         IN IF landing \notin Cells THEN rest
            ELSE IF snap[idx(landing)] # EMPTY THEN rest
            ELSE LET childSnap == [snap EXCEPT ![idx(mid)] = EMPTY]
                     nextCaptured == <<mid>> \o capturedSoFar
                 IN CHOOSE out \in
                        {(IF Len(chain) > 0 THEN chain
                          ELSE <<[from |-> from,
                                  toBeRemovedChickens |-> nextCaptured,
                                  end |-> landing]>>) \o rest :
                            chain \in {getFoxJumpsInternal(childSnap, landing, nextCaptured, from)}} :
                        TRUE

\* getFoxJumpsInternal (board-matrix.ts:164-212)
getFoxJumpsInternal(snap, p, capturedSoFar, from) ==
    LET isChicken(q) == snap[idx(q)] = CHICKEN
    IN FoxJumpLoop(snap, p, capturedSoFar, from,
                   SelectSeq(getConnectedPoints(p, FALSE), isChicken), 1)

\* getMovesForFox (board-matrix.ts:214-229)
getMovesForFox(snap, from) ==
    IF from \notin Cells THEN [moves |-> <<>>, jumps |-> <<>>]
    ELSE IF snap[idx(from)] # FOX THEN [moves |-> <<>>, jumps |-> <<>>]
    ELSE LET isEmpty(q) == snap[idx(q)] = EMPTY
         IN [moves |-> SelectSeq(getConnectedPoints(from, FALSE), isEmpty),
             jumps |-> getFoxJumpsInternal(snap, from, <<>>, from)]

\* BoardMatrixService.applyStepMove
applyStepMove(snap, from, to) == [[snap EXCEPT ![idx(from)] = EMPTY] EXCEPT ![idx(to)] = snap[idx(from)]]

RECURSIVE ClearAll(_, _, _)
ClearAll(states, points, i) ==
    IF i > Len(points) THEN states
    ELSE ClearAll([states EXCEPT ![idx(points[i])] = EMPTY], points, i + 1)

\* BoardMatrixService.applyFoxJump
applyFoxJump(snap, jump) ==
    [ClearAll([snap EXCEPT ![idx(jump.from)] = EMPTY], jump.toBeRemovedChickens, 1)
        EXCEPT ![idx(jump.end)] = FOX]

RECURSIVE FoxMovesFrom(_, _)
\* The scan of BoardMatrixService.allFoxMoves, from index i of the row order.
FoxMovesFrom(snap, i) ==
    IF i > Len(RowSeq) THEN [stepMoves |-> <<>>, jumps |-> <<>>]
    ELSE IF snap[idx(RowSeq[i])] # FOX THEN FoxMovesFrom(snap, i + 1)
    ELSE CHOOSE out \in
            {[stepMoves |-> [k \in 1..Len(res.moves) |->
                                [from |-> RowSeq[i], to |-> res.moves[k]]] \o rest.stepMoves,
              jumps |-> res.jumps \o rest.jumps] :
                res \in {getMovesForFox(snap, RowSeq[i])},
                rest \in {FoxMovesFrom(snap, i + 1)}} : TRUE

allFoxMoves(snap) == FoxMovesFrom(snap, 1)

RECURSIVE ChickenMovesFrom(_, _)
\* The scan of BoardMatrixService.allChickenMoves, from index i of the row order.
ChickenMovesFrom(snap, i) ==
    IF i > Len(RowSeq) THEN <<>>
    ELSE IF snap[idx(RowSeq[i])] # CHICKEN THEN ChickenMovesFrom(snap, i + 1)
    ELSE CHOOSE out \in
            {[k \in 1..Len(tos) |-> [from |-> RowSeq[i], to |-> tos[k]]]
                 \o ChickenMovesFrom(snap, i + 1) :
                tos \in {getMovesForChicken(snap, RowSeq[i])}} : TRUE

allChickenMoves(snap) == ChickenMovesFrom(snap, 1)

\* Variant of scoreForChickens without the flat penalty for being jumpable.
scoreForChickens_NoFlatPenalty(snap) ==
    CHOOSE out \in
        {evaluate(snap) + countChickensInStall(snap)
            - (IF danger > 0 THEN 2 * Min(danger, 6) ELSE 0) :
            danger \in {Len(allFoxMoves(snap).jumps)}} : TRUE

\* BoardMatrixService.scoreForChickens (part_003:119-134), in halves.
scoreForChickens(snap) ==
    CHOOSE out \in
        {evaluate(snap) + countChickensInStall(snap)
            - (IF danger > 0 THEN 2 * 5 + 2 * Min(danger, 6) ELSE 0) :
            danger \in {Len(allFoxMoves(snap).jumps)}} : TRUE

otherPlayer(p) == IF p = PlayerChicken THEN PlayerFox ELSE PlayerChicken

\* The snapshots a fox ply chooses among: the jumps when there are any, the
\* step moves otherwise.
FoxChildren(snap) ==
    CHOOSE out \in
        {IF Len(foxMoves.jumps) > 0
         THEN [k \in 1..Len(foxMoves.jumps) |-> applyFoxJump(snap, foxMoves.jumps[k])]
         ELSE [k \in 1..Len(foxMoves.stepMoves) |->
                  applyStepMove(snap, foxMoves.stepMoves[k].from, foxMoves.stepMoves[k].to)] :
            foxMoves \in {allFoxMoves(snap)}} : TRUE

ChickenChildren(snap) ==
    CHOOSE out \in
        {[k \in 1..Len(chickenMoves) |->
             applyStepMove(snap, chickenMoves[k].from, chickenMoves[k].to)] :
            chickenMoves \in {allChickenMoves(snap)}} : TRUE

RECURSIVE minimax(_, _, _, _, _)
RECURSIVE MinLoop(_, _, _, _, _, _)
RECURSIVE MaxLoop(_, _, _, _, _, _)
\* The fox loop of minimax: value and beta shrink, cut when beta <= alpha.
MinLoop(candidates, i, depth, alpha, beta, value) ==
    IF i > Len(candidates) THEN value
    ELSE CHOOSE out \in
            {IF Min(beta, v) <= alpha THEN v
             ELSE MinLoop(candidates, i + 1, depth, alpha, Min(beta, v), v) :
                v \in {Min(value, minimax(candidates[i], depth - 1, PlayerChicken, alpha, beta))}} :
            TRUE

\* Variant of MaxLoop that stops at the first child that raises alpha.
MaxLoop_CutsOnImprovement(candidates, i, depth, alpha, beta, value) ==
    IF i > Len(candidates) THEN value
    ELSE CHOOSE out \in
            {IF beta <= Max(alpha, v) \/ v > alpha THEN v
             ELSE MaxLoop(candidates, i + 1, depth, Max(alpha, v), beta, v) :
                v \in {Max(value, minimax(candidates[i], depth - 1, PlayerFox, alpha, beta))}} :
            TRUE

\* The chicken loop of minimax: value and alpha grow, cut when beta <= alpha.
MaxLoop(candidates, i, depth, alpha, beta, value) ==
    IF i > Len(candidates) THEN value
    ELSE CHOOSE out \in
            {IF beta <= Max(alpha, v) THEN v
             ELSE MaxLoop(candidates, i + 1, depth, Max(alpha, v), beta, v) :
                v \in {Max(value, minimax(candidates[i], depth - 1, PlayerFox, alpha, beta))}} :
            TRUE

\* BoardMatrixService.minimax (part_003:140-186)
minimax(snap, depth, playerToMove, alpha, beta) ==
    IF depth <= 0 THEN scoreForChickens(snap)
    ELSE CHOOSE out \in
            {IF Len(candidates) = 0 THEN scoreForChickens(snap)
             ELSE IF playerToMove = PlayerFox
                  THEN MinLoop(candidates, 1, depth, alpha, beta, PositiveInfinity)
                  ELSE MaxLoop(candidates, 1, depth, alpha, beta, NegativeInfinity) :
                candidates \in {IF playerToMove = PlayerFox THEN FoxChildren(snap)
                                ELSE ChickenChildren(snap)}} : TRUE

\* Variant of RootCandidates in which a fox's step moves stay candidates
\* when jumps exist.
RootCandidates_StepsBesideJumps(snap, player) ==
    IF player = PlayerFox
    THEN CHOOSE out \in
            {[k \in 1..Len(foxMoves.stepMoves) |->
                 [from |-> foxMoves.stepMoves[k].from, to |-> foxMoves.stepMoves[k].to,
                  child |-> applyStepMove(snap, foxMoves.stepMoves[k].from,
                                          foxMoves.stepMoves[k].to)]]
             \o [k \in 1..Len(foxMoves.jumps) |->
                    [from |-> foxMoves.jumps[k].from, to |-> foxMoves.jumps[k].end,
                     child |-> applyFoxJump(snap, foxMoves.jumps[k])]] :
                foxMoves \in {allFoxMoves(snap)}} : TRUE
    ELSE CHOOSE out \in
            {[k \in 1..Len(chickenMoves) |->
                 [from |-> chickenMoves[k].from, to |-> chickenMoves[k].to,
                  child |-> applyStepMove(snap, chickenMoves[k].from, chickenMoves[k].to)]] :
                chickenMoves \in {allChickenMoves(snap)}} : TRUE

\* The root candidates of calculateNextMove for `player`, each with the move
\* it stands for and the snapshot it leads to.
RootCandidates(snap, player) ==
    IF player = PlayerFox
    THEN CHOOSE out \in
            {IF Len(foxMoves.jumps) > 0
             THEN [k \in 1..Len(foxMoves.jumps) |->
                      [from |-> foxMoves.jumps[k].from, to |-> foxMoves.jumps[k].end,
                       child |-> applyFoxJump(snap, foxMoves.jumps[k])]]
             ELSE [k \in 1..Len(foxMoves.stepMoves) |->
                      [from |-> foxMoves.stepMoves[k].from, to |-> foxMoves.stepMoves[k].to,
                       child |-> applyStepMove(snap, foxMoves.stepMoves[k].from,
                                               foxMoves.stepMoves[k].to)]] :
                foxMoves \in {allFoxMoves(snap)}} : TRUE
    ELSE CHOOSE out \in
            {[k \in 1..Len(chickenMoves) |->
                 [from |-> chickenMoves[k].from, to |-> chickenMoves[k].to,
                  child |-> applyStepMove(snap, chickenMoves[k].from, chickenMoves[k].to)]] :
                chickenMoves \in {allChickenMoves(snap)}} : TRUE

RECURSIVE RootLoop_LastBestWins(_, _, _, _, _, _)
\* Variant of RootLoop in which a candidate of equal value replaces the one
\* kept so far.
RootLoop_LastBestWins(candidates, i, depth, player, bestValue, best) ==
    IF i > Len(candidates) THEN best
    ELSE CHOOSE out \in
            {IF (IF player = PlayerFox THEN value <= bestValue ELSE value >= bestValue) \/ best = 0
             THEN RootLoop_LastBestWins(candidates, i + 1, depth, player, value, i)
             ELSE RootLoop_LastBestWins(candidates, i + 1, depth, player, bestValue, best) :
                value \in {minimax(candidates[i].child, Max(0, depth - 1), otherPlayer(player),
                                   NegativeInfinity, PositiveInfinity)}} : TRUE

RECURSIVE RootLoop(_, _, _, _, _, _)
\* The root loops of calculateNextMove; best is the index of the candidate
\* kept so far, 0 while there is none.
RootLoop(candidates, i, depth, player, bestValue, best) ==
    IF i > Len(candidates) THEN best
    ELSE CHOOSE out \in
            {IF (IF player = PlayerFox THEN value < bestValue ELSE value > bestValue) \/ best = 0
             THEN RootLoop(candidates, i + 1, depth, player, value, i)
             ELSE RootLoop(candidates, i + 1, depth, player, bestValue, best) :
                value \in {minimax(candidates[i].child, Max(0, depth - 1), otherPlayer(player),
                                   NegativeInfinity, PositiveInfinity)}} : TRUE

\* BoardMatrixService.calculateNextMove (part_003:188-248)
calculateNextMove(b, depth, player) ==
    CHOOSE out \in
        {CHOOSE move \in
             {IF best = 0
              THEN (IF player = PlayerFox THEN [from |-> <<2, 2>>, to |-> <<2, 2>>]
                    ELSE [from |-> <<2, 3>>, to |-> <<2, 3>>])
              ELSE [from |-> candidates[best].from, to |-> candidates[best].to] :
                 best \in {RootLoop(candidates, 1, depth, player,
                                    IF player = PlayerFox THEN PositiveInfinity
                                    ELSE NegativeInfinity, 0)}} : TRUE :
            candidates \in {RootCandidates(createSnapshot(b), player)}} : TRUE

---------------------------------------------------------------------------
(* The search of the computer player, BoardMatrixService.calculateNextMove
   (part_003:188-248), called as its tests call it (part_005): the Board is
   set up cell by cell, the service is asked for a move of the side to move,
   and the caller hands the move to Board.attemptMove with the lists of the
   Board for the move's origin, the call of play.ts:164-170.  No Play is
   constructed here: a Play resets the Board before its computer player
   looks at it (see the one-player game below). *)

MaxAiFoxes == 2
MaxAiChickens == 2
MaxDepth == 3
MaxAiCalls == 1

\* The nine cells on which placeFillersNineChickensIncluding (part_005:25-38)
\* sets a chicken, whatever they held.
Fillers ==
    {<<2, 5>>, <<3, 5>>, <<4, 5>>, <<2, 4>>, <<3, 4>>, <<4, 4>>, <<2, 3>>, <<4, 3>>,
     <<3, 6>>}

\* The position of the fourth test of calculateNextMove (part_005:108-139):
\* one chicken free to go left or right, the others blocked.
HistoryTestBoard ==
    Place({<<3, 1>>, <<1, 2>>, <<1, 3>>, <<1, 4>>, <<5, 2>>, <<5, 3>>, <<5, 4>>,
           <<2, 5>>, <<3, 5>>, <<4, 5>>, <<4, 6>>},
          {<<3, 2>>, <<0, 2>>, <<0, 3>>, <<0, 4>>, <<6, 2>>, <<6, 3>>, <<6, 4>>,
           <<3, 6>>, <<2, 6>>})

\* The four positions of the tests of calculateNextMove (part_005:41-139):
\* clearBoard, then the pieces of the test, the fillers among them.
TestBoards ==
    {Place({<<3, 3>>}, {<<3, 2>>} \cup Fillers),
     Place({<<2, 2>>, <<4, 2>>}, {<<3, 2>>} \cup Fillers),
     Place({<<3, 3>>, <<4, 2>>}, {<<2, 2>>} \cup Fillers),
     HistoryTestBoard}

\* The cells on which the small set-ups place pieces: the two upper rows of
\* the central block, less its upper right cell.
AiRegion == {p \in Region : p[2] <= 3} \ {<<4, 2>>}

\* Set-ups in the manner of the tests: one or two foxes and one or two
\* chickens on cells of AiRegion.
AiBoards ==
    {Place(fc[1], fc[2]) :
        fc \in {gd \in (SUBSET AiRegion) \X (SUBSET AiRegion) :
                    /\ gd[1] \cap gd[2] = {}
                    /\ Cardinality(gd[1]) \in 1..MaxAiFoxes
                    /\ Cardinality(gd[2]) \in 1..MaxAiChickens}}

\* Two more set-ups: a fox with a chicken on each of its eight neighbours,
\* and a position one chicken step away from a full stall.
ScoreBoards ==
    {Place({<<3, 3>>}, {<<2, 2>>, <<3, 2>>, <<4, 2>>, <<2, 3>>, <<4, 3>>,
                        <<2, 4>>, <<3, 4>>, <<4, 4>>}),
     Place({<<3, 4>>}, TopRows \cup {<<2, 2>>, <<4, 2>>, <<3, 3>>})}

\* Two set-ups in which the side to move has nothing to play: a fox in the
\* top row with a chicken on each neighbour and on the cell behind the lower
\* one, and three chickens filling the top row.
StuckBoards ==
    {Place({<<3, 0>>}, {<<2, 0>>, <<4, 0>>, <<3, 1>>, <<3, 2>>}),
     Place({<<3, 3>>}, {<<2, 0>>, <<3, 0>>, <<4, 0>>})}

InitAI ==
    /\ board \in ((AiBoards \cup TestBoards) \cup ScoreBoards) \cup StuckBoards
    /\ playersTurn \in Player
    /\ winingReason = NoReason
    /\ lastOp = "new"
    /\ result = NoResult
    /\ steps = 0
    /\ chickenHistory = <<>>
    /\ ai = NoAi
    /\ online = Offline
    /\ peer = IdlePeer

\* The code of a State value (enum State, board.ts:3-7).
StateCode(st) == CASE st = FOX -> 0 [] st = CHICKEN -> 1 [] st = EMPTY -> 2

\* Array.from(snap.states).join(','): the codes of the 49 slots in index
\* order (play.ts:56, part_005:145).
fingerprint(snap) == [i \in 1..(BoardSize * BoardSize) |-> StateCode(snap[i - 1])]

\* Play.fingerprintBoardForHistory (play.ts:53-57)
fingerprintBoardForHistory(b) == fingerprint(createSnapshot(b))

\* The history after a chicken move of the computer player that left board b
\* (play.ts:126): the new fingerprint in front, cut to 2 entries.
RecordChickenMove(history, b) ==
    SubSeq(<<fingerprintBoardForHistory(b)>> \o history, 1,
           Min(Len(history) + 1, 2))

\* What the caller does with a move from `from` to `to` (play.ts:164-170):
\* attemptMove with what getMoves, getJumps and getAllJumps return on the
\* Board as it is at that moment.  When a query fails attemptMove is not
\* reached.
AnimationOver(from, to) ==
    CHOOSE out \in
        {IF availableJumps.threw \/ allJumps.threw
         THEN [threw |-> TRUE, state |-> BoardState, outcome |-> Thrown.outcome,
               message |-> NoMessage]
         ELSE CHOOSE done \in
                  {[threw |-> FALSE, state |-> r.state, outcome |-> r.outcome,
                    message |-> r.message] :
                      r \in {attemptMove(BoardState, from, to, availableMoves,
                                         availableJumps.opts, allJumps.opts)}} : TRUE :
            availableMoves \in {getMoves(board, playersTurn, from)},
            availableJumps \in {getJumps(board, from)},
            allJumps \in {getAllJumps(board, playersTurn)}} : TRUE

\* The caller of the service holds the move the call returned.
Found(A, move) ==
    [A EXCEPT !.moves = <<[from |-> move.from, to |-> move.to, by |-> "search"]>>]

(* One call of calculateNextMove for the side to move, as in part_005:55-56
   and, with a list of recent fingerprints as fourth argument, part_005:147:
   the method has three parameters (part_003:188) and the list is not looked
   at.  The call reads the Board through stateFor alone (createSnapshot,
   part_003:32-43) and builds every child on a copy of the states array
   (cloneStates in applyStepMove and applyFoxJump, part_003:54-70); it calls
   none of the Board's mutators and sets none of its signals. *)
CalculateNextMove(depth) ==
    /\ steps < MaxAiCalls
    /\ ai = NoAi
    /\ \E move \in {calculateNextMove(board, depth, playersTurn)} :
          ai' = Found(ai, move)
    /\ lastOp' = "calculateNextMove"
    /\ result' = NoResult
    /\ UNCHANGED <<boardVars, steps, chickenHistory, online, peer>>

\* The move the call returned is handed to Board.attemptMove with the lists
\* of the Board for the move's origin.
AttemptFound ==
    /\ Len(ai.moves) > 0
    /\ Head(ai.moves).by = "search"
    /\ \E done \in {AnimationOver(Head(ai.moves).from, Head(ai.moves).to)} :
          IF done.threw
          THEN /\ UNCHANGED boardVars
               /\ lastOp' = "getJumps"
               /\ result' = Thrown
          ELSE /\ Becomes(done.state)
               /\ lastOp' = "aiMove"
               /\ result' = [outcome |-> done.outcome, message |-> done.message]
    /\ ai' = [ai EXCEPT !.moves = Tail(@)]
    /\ steps' = steps + 1
    /\ UNCHANGED <<chickenHistory, online, peer>>

NextAI ==
    \/ \E depth \in 0..MaxDepth : CalculateNextMove(depth)
    \/ AttemptFound

SpecAI == InitAI /\ [][NextAI]_vars

---------------------------------------------------------------------------
(* Calls with a coordinate that is not a cell of the board.
   board.get(p.toString()) is undefined for such a point: `!.` then reads a
   property of undefined, which throws a TypeError, and `?.` skips the call. *)

TypeError == [outcome |-> "TypeError", message |-> NoMessage]

\* Points off the cross: two corners of the 7x7 grid and two points beside it.
Outside == {<<0, 0>>, <<6, 6>>, <<7, 3>>, <<3, -1>>}

\* Board.jumpTo (board.ts:213-230) with any points: the captured chickens are
\* emptied through `?.`, then selectedPiece and jumpOption.end are written
\* through `!.`, each of which throws on a point off the board.
jumpToAnywhere(S, selectedPiece, jumpOption) ==
    IF selectedPiece = Undefined THEN [threw |-> FALSE, state |-> S]
    ELSE
        LET b1 == RemoveAll(S.board, jumpOption.toBeRemovedChickens, 1)
        IN IF selectedPiece \notin Cells
           THEN [threw |-> TRUE, state |-> [S EXCEPT !.board = b1]]
           ELSE IF jumpOption.end \notin Cells
           THEN [threw |-> TRUE,
                 state |-> [S EXCEPT !.board = [b1 EXCEPT ![selectedPiece] = EMPTY]]]
           ELSE [threw |-> FALSE, state |-> jumpTo(S, selectedPiece, jumpOption)]

\* Board.getMoves (board.ts:184-187) on a point off the board.
GetMovesOutside(point) ==
    /\ steps < MaxSteps
    /\ point \notin Cells
    /\ UNCHANGED boardVars
    /\ lastOp' = "getMoves outside"
    /\ result' = TypeError
    /\ steps' = steps + 1
    /\ UNCHANGED <<chickenHistory, ai, online, peer>>

\* Board.getJumps (board.ts:189-191) on a point off the board.
GetJumpsOutside(point) ==
    /\ steps < MaxSteps
    /\ point \notin Cells
    /\ UNCHANGED boardVars
    /\ lastOp' = "getJumps outside"
    /\ result' = TypeError
    /\ steps' = steps + 1
    /\ UNCHANGED <<chickenHistory, ai, online, peer>>

\* Board.moveTo with a source or a destination off the board.
MoveToOutside(selectedPiece, to) ==
    /\ steps < MaxSteps
    /\ (selectedPiece \notin Cells \/ to \notin Cells)
    /\ Becomes(moveTo(BoardState, selectedPiece, to))
    /\ lastOp' = "moveTo outside"
    /\ result' = NoResult
    /\ steps' = steps + 1
    /\ UNCHANGED <<chickenHistory, ai, online, peer>>

\* Board.jumpTo with a source off the board and an option getJumps offers
\* for a cell of the board.
JumpToOutside(selectedPiece, source) ==
    /\ steps < MaxSteps
    /\ selectedPiece \notin Cells
    /\ \E availableJumps \in {getJumps(board, source)} :
          /\ ~availableJumps.threw
          /\ \E k \in 1..Len(availableJumps.opts) :
                \E r \in {jumpToAnywhere(BoardState, selectedPiece, availableJumps.opts[k])} :
                    /\ Becomes(r.state)
                    /\ result' = IF r.threw THEN TypeError ELSE NoResult
    /\ lastOp' = "jumpTo outside"
    /\ steps' = steps + 1
    /\ UNCHANGED <<chickenHistory, ai, online, peer>>

\* Board.punishForJump (and through it Board.punish) with a point off the
\* board; the option is not looked at.
PunishOutside(selectedPiece) ==
    /\ steps < MaxSteps
    /\ selectedPiece \notin Cells
    /\ Becomes(punishForJump(BoardState, selectedPiece, Undefined))
    /\ lastOp' = "punishForJump outside"
    /\ result' = NoResult
    /\ steps' = steps + 1
    /\ UNCHANGED <<chickenHistory, ai, online, peer>>

NextOutside ==
    \/ \E point \in Outside : GetMovesOutside(point)
    \/ \E point \in Outside : GetJumpsOutside(point)
    \/ \E selectedPiece \in Outside, to \in Sources \cup Outside :
          MoveToOutside(selectedPiece, to)
    \/ \E selectedPiece \in Sources, to \in Outside : MoveToOutside(selectedPiece, to)
    \/ \E selectedPiece \in Outside, source \in Sources :
          JumpToOutside(selectedPiece, source)
    \/ \E selectedPiece \in Outside : PunishOutside(selectedPiece)

SpecOutside == Init /\ [][NextOutside]_vars

---------------------------------------------------------------------------
(* The click on a piece (Play.clickedPiece, play.ts:195-207), which holds the
   caller's probe for a fox side that has nothing to play.  The handler runs
   between animations (uiLocked is false). *)

NoMovesForFoxes == "No moves for foxes! Chickens win!"

\* The settings of a game: two players, or one player who has the chickens
\* or the foxes (humanPlaysAs; Chicken when it is left out).
Settings ==
    {[mode |-> "two-player", humanPlaysAs |-> PlayerChicken],
     [mode |-> "one-player", humanPlaysAs |-> PlayerChicken],
     [mode |-> "one-player", humanPlaysAs |-> PlayerFox]}

\* Play.isHumanTurn (play.ts:183-188)
isHumanTurn(s, turn) == s.mode # "one-player" \/ turn = s.humanPlaysAs

ReturnedEarly == [outcome |-> "returned", message |-> NoMessage]
Probed == [outcome |-> "probed", message |-> NoMessage]

\* Play.clickedPiece (play.ts:195-207) on cell p under settings s.  The lists
\* it stores for the display are what the four queries return.
ClickedPiece(p, s) ==
    /\ steps < MaxSteps
    /\ IF ~isHumanTurn(s, playersTurn) \/ winingReason # NoReason
       THEN /\ UNCHANGED boardVars
            /\ result' = ReturnedEarly
       ELSE \E jumps \in {getJumps(board, p)},
               allJumps \in {getAllJumps(board, playersTurn)},
               allMoves \in {getAllMoves(board, playersTurn)} :
               IF jumps.threw \/ allJumps.threw
               THEN /\ UNCHANGED boardVars
                    /\ result' = Thrown
               ELSE /\ UNCHANGED <<board, playersTurn>>
                    /\ winingReason' =
                          IF /\ playersTurn = PlayerFox
                             /\ Len(allMoves) = 0
                             /\ Len(allJumps.opts) = 0
                          THEN NoMovesForFoxes ELSE winingReason
                    /\ result' = Probed
    /\ lastOp' = "clickedPiece"
    /\ steps' = steps + 1
    /\ UNCHANGED <<chickenHistory, ai, online, peer>>

\* The handler of the earlier revision of Play (part_000:29-38): its probe
\* tests `!this.allMoves() && !this.allJumps`, an array and a signal, which
\* are both truthy, so it never sets the outcome; a failing query ends it.
ClickedPieceEarlier(p) ==
    /\ steps < MaxSteps
    /\ UNCHANGED boardVars
    /\ result' = IF getJumps(board, p).threw \/ getAllJumps(board, playersTurn).threw
                 THEN Thrown ELSE Probed
    /\ lastOp' = "clickedPiece earlier"
    /\ steps' = steps + 1
    /\ UNCHANGED <<chickenHistory, ai, online, peer>>

\* The cells clicked: those of the central block and the fox's cell of the
\* first of the StuckBoards.
Clicked == Sources \cup {<<3, 0>>}

InitPlay ==
    /\ board \in (({StartBoard} \cup ScenarioBoards) \cup LoopBoards) \cup StuckBoards
    /\ playersTurn \in Player
    /\ winingReason = NoReason
    /\ lastOp = "new"
    /\ result = NoResult
    /\ steps = 0
    /\ chickenHistory = <<>>
    /\ ai = NoAi
    /\ online = Offline
    /\ peer = IdlePeer

NextPlay ==
    \/ \E p \in Clicked, s \in Settings : ClickedPiece(p, s)
    \/ \E p \in Clicked : ClickedPieceEarlier(p)

SpecPlay == InitPlay /\ [][NextPlay]_vars

---------------------------------------------------------------------------
(* A one-player game of Play (play.ts).  The constructor registers the
   settings effect (play.ts:65-78) and, after it, the one-player effect
   (play.ts:100-134); Angular runs the effects that are due, in that order,
   in the change detection that follows the construction and every handler
   and timer.  The first run of the settings effect resets the Board, so the
   computer player first looks at the start position.  A move, of the
   computer player or of the person, goes through animateThenAttemptMove
   (play.ts:155-181), which sets uiLocked and waits moveAnimMs: only when
   that timer fires is attemptMove called, with the lists of the Board as it
   is then.  Clicks are refused while uiLocked is set; onReset and
   onPlayAgain are not. *)

MaxGameSteps == 5
MaxGameDepth == 2
MaxOnePlayerSteps == 3
OnePlayerDepth == 1

(* The fields of Play in a one-player game in which the computer plays
   aiPlayer, as the constructor leaves them (play.ts:27-51), the effects due
   to run:
   aiPlayer       the side that is not settings().humanPlaysAs, or "none"
                  once the settings are cleared;
   aiInProgress, uiLocked, hasInitializedGame
                  the fields of these names;
   moves          the calls of animateThenAttemptMove that wait for their
                  timer: the move, and whether the effect or a click made
                  the call;
   scheduled      the effects are due to run: they have not run yet, or a
                  signal they read in their last run has changed since;
   reads          the signals the one-player effect read in its last run
                  (play.ts:102-108): "settings" alone when there were no
                  settings, "outcome" for settings and winingReason when the
                  game was decided, "turn" for these two and playersTurn,
                  "none" before its first run;
   navigating     the router has been asked for the selection page
                  (play.ts:235) and has not shown it yet;
   destroyed      the selection page is shown: the component and its
                  effects are destroyed, its timers are not;
   selectedPiece  the signal of that name. *)
PlayState(aiPlayer) ==
    [aiPlayer |-> aiPlayer, aiInProgress |-> FALSE, uiLocked |-> FALSE,
     hasInitializedGame |-> FALSE, moves |-> <<>>, scheduled |-> TRUE,
     reads |-> "none", navigating |-> FALSE, destroyed |-> FALSE,
     selectedPiece |-> Undefined]

\* A Play is modelled: `ai` holds its fields.
PlayLives == "uiLocked" \in DOMAIN ai

uiLocked == ai.uiLocked

\* Whether a step changes a signal the one-player effect read in its last
\* run, so that the effect is due again; the effects of a destroyed component
\* are never due.
SignalsChange ==
    /\ ~ai.destroyed
    /\ \/ ai.reads \in {"outcome", "turn"} /\ winingReason' # winingReason
       \/ ai.reads = "turn" /\ playersTurn' # playersTurn

\* The signals the one-player effect reads in a run with the fields A of Play
\* on the Board in state S (play.ts:102-108).
SignalsRead(A, S) ==
    IF A.aiPlayer \notin Player THEN "settings"
    ELSE IF S.winingReason # NoReason THEN "outcome"
    ELSE "turn"

\* Play.animateThenAttemptMove up to its await (play.ts:155-162), called by
\* the effect or by a click: uiLocked is set and the call waits for the timer.
\* With the call waits its caller: the click handler, or the effect's task
\* with the aiPlayer it was started for (play.ts:107).
animateThenAttemptMove(A, from, to, by) ==
    [A EXCEPT !.uiLocked = TRUE,
              !.moves = Append(@, [from |-> from, to |-> to, by |-> by,
                                   player |-> IF by = "effect" THEN A.aiPlayer ELSE "none"])]

(* One run of the settings effect (play.ts:65-78): what it leaves of the
   Board, of the history and of the fields of Play.  Without settings it
   clears hasInitializedGame and asks the router for the selection page; with
   settings and
   hasInitializedGame not set it calls onReset (play.ts:224-230) and sets the
   flag; else it does nothing, which is also what a run that was not due
   would do. *)
SettingsEffect ==
    IF ai.aiPlayer \notin Player
    THEN [state |-> BoardState, history |-> chickenHistory, reset |-> FALSE,
          A |-> [ai EXCEPT !.hasInitializedGame = FALSE, !.navigating = TRUE]]
    ELSE IF ~ai.hasInitializedGame
    THEN [state |-> reset(BoardState), history |-> <<>>, reset |-> TRUE,
          A |-> [ai EXCEPT !.hasInitializedGame = TRUE, !.selectedPiece = Undefined]]
    ELSE [state |-> BoardState, history |-> chickenHistory, reset |-> FALSE, A |-> ai]

(* One change detection in which effects are due: the settings effect, which
   leaves `now`, then the one-player effect (play.ts:101-113) with the
   microtask it queues, up to the await of animateThenAttemptMove
   (play.ts:114-122, 155-162), where `found` is the move the search of the
   microtask returns on the Board as the settings effect left it. *)
EffectWith(now, found) ==
    /\ ai.scheduled
    /\ Becomes(now.state)
    /\ chickenHistory' = now.history
    /\ lastOp' = IF now.reset THEN "reset" ELSE lastOp
    /\ result' = IF now.reset THEN NoResult ELSE result
    /\ IF /\ now.A.aiPlayer \in Player
          /\ now.state.winingReason = NoReason
          /\ now.state.playersTurn = now.A.aiPlayer
          /\ ~now.A.aiInProgress
          /\ ~now.A.uiLocked
       THEN \E move \in {found} :
               ai' = animateThenAttemptMove(
                         [now.A EXCEPT !.scheduled = FALSE, !.aiInProgress = TRUE,
                                       !.reads = SignalsRead(now.A, now.state)],
                         move.from, move.to, "effect")
       ELSE ai' = [now.A EXCEPT !.scheduled = FALSE,
                                !.reads = SignalsRead(now.A, now.state)]
    /\ UNCHANGED <<steps, online, peer>>

\* The change detection with BoardMatrixService.calculateNextMove of
\* part_003:188-248, which has three parameters: the fourth argument of the
\* call of play.ts:115-120, the history, is not looked at.
EffectRun(depth) ==
    \E now \in {SettingsEffect} :
        EffectWith(now, calculateNextMove(now.state.board, depth, ai.aiPlayer))

\* The rest of the effect's task once the animation delay is over
\* (play.ts:164-180, 124-132): attemptMove, the record of a chicken move,
\* clearSelection, and aiInProgress cleared.  A failing query leaves uiLocked
\* set (play.ts:176 is not reached) and the selection as it is.
AiApply ==
    /\ Len(ai.moves) > 0
    /\ Head(ai.moves).by = "effect"
    /\ \E done \in {AnimationOver(Head(ai.moves).from, Head(ai.moves).to)} :
          IF done.threw
          THEN /\ UNCHANGED <<boardVars, chickenHistory>>
               /\ lastOp' = "getJumps"
               /\ result' = Thrown
               /\ ai' = [ai EXCEPT !.moves = Tail(@), !.aiInProgress = FALSE]
          ELSE /\ Becomes(done.state)
               /\ lastOp' = "aiMove"
               /\ result' = [outcome |-> done.outcome, message |-> done.message]
               /\ chickenHistory' =
                     IF Head(ai.moves).player = PlayerChicken /\ done.outcome # "ignored"
                     THEN RecordChickenMove(chickenHistory, done.state.board)
                     ELSE chickenHistory
               /\ ai' = [ai EXCEPT !.moves = Tail(@), !.aiInProgress = FALSE,
                                   !.uiLocked = FALSE, !.selectedPiece = Undefined,
                                   !.scheduled = @ \/ SignalsChange]
    /\ steps' = steps + 1
    /\ UNCHANGED <<online, peer>>

\* Play.onReset (play.ts:224-230), at any moment: a new game, the history
\* emptied and the selection cleared.  It neither looks at uiLocked nor
\* touches a call of animateThenAttemptMove that waits for its timer.  Where
\* no Play is modelled (ai = NoAi) there is no selection to clear and no
\* effect to run.
OnReset ==
    /\ Becomes(reset(BoardState))
    /\ lastOp' = "reset"
    /\ result' = NoResult
    /\ steps' = steps + 1
    /\ chickenHistory' = <<>>
    /\ ai' = IF ai = NoAi THEN ai
             ELSE [ai EXCEPT !.selectedPiece = Undefined,
                             !.scheduled = @ \/ SignalsChange]
    /\ UNCHANGED <<online, peer>>

\* Play.onPlayAgain (play.ts:232-236): onReset, then the settings are cleared
\* and the router is asked for the selection page.  There is no computer
\* player any more; the effects are due when the settings were set before, or
\* when the reset changed a signal the one-player effect had read.
OnPlayAgain ==
    /\ Becomes(reset(BoardState))
    /\ lastOp' = "reset"
    /\ result' = NoResult
    /\ steps' = steps + 1
    /\ chickenHistory' = <<>>
    /\ ai' = [ai EXCEPT !.selectedPiece = Undefined, !.aiPlayer = "none",
                        !.navigating = TRUE,
                        !.scheduled = (@ \/ ai.aiPlayer \in Player) \/ SignalsChange]
    /\ UNCHANGED <<online, peer>>

\* The navigation to the selection page ends (part_008:59-66): the router
\* destroys Play and with it its effects.  The calls of
\* animateThenAttemptMove that wait for their timer are not cancelled.
Destroyed ==
    /\ ai.navigating
    /\ ai' = [ai EXCEPT !.navigating = FALSE, !.destroyed = TRUE, !.scheduled = FALSE]
    /\ UNCHANGED <<boardVars, lastOp, result, steps, chickenHistory, online, peer>>

\* The cells the person's clicks of a one-player game are made on: the pieces
\* on the fox cell (2,2) and on the middle cell (3,3), of either side, and
\* the destinations beside and between them.
ClickSources == {<<2, 2>>, <<3, 3>>}
ClickTargets == {<<1, 2>>, <<3, 2>>, <<3, 3>>}

\* The cells that hold a piece, and those that hold a piece of the side to
\* move.
PiecesOnBoard == {p \in Cells : board[p] # EMPTY}
PiecesToMove == {p \in Cells : board[p] = (IF playersTurn = PlayerFox THEN FOX ELSE CHICKEN)}

\* Play.clickedPiece (play.ts:195-207) on the piece on cell p, of either
\* side: refused when it is not the person's turn (isHumanTurn,
\* play.ts:183-188: without settings every turn is the person's), the game is
\* decided or uiLocked is set; else the cell is selected, the four lists are
\* queried and the probe for a stuck fox side is made.  A failing query ends
\* the handler with the cell selected.
PersonClicksPiece(p) ==
    /\ playersTurn # ai.aiPlayer
    /\ winingReason = NoReason
    /\ ~uiLocked
    /\ \E jumps \in {getJumps(board, p)},
          allJumps \in {getAllJumps(board, playersTurn)},
          allMoves \in {getAllMoves(board, playersTurn)} :
          IF jumps.threw \/ allJumps.threw
          THEN /\ UNCHANGED boardVars
               /\ result' = Thrown
               /\ ai' = [ai EXCEPT !.selectedPiece = p]
          ELSE /\ UNCHANGED <<board, playersTurn>>
               /\ winingReason' =
                     IF /\ playersTurn = PlayerFox
                        /\ Len(allMoves) = 0
                        /\ Len(allJumps.opts) = 0
                     THEN NoMovesForFoxes ELSE winingReason
               /\ result' = Probed
               /\ ai' = [ai EXCEPT !.selectedPiece = p,
                                   !.scheduled = @ \/ SignalsChange]
    /\ lastOp' = "clickedPiece"
    /\ UNCHANGED <<steps, chickenHistory, online, peer>>

\* Play.clickedMove (play.ts:209-215) up to the await of
\* animateThenAttemptMove: refused under the conditions of clickedPiece and
\* when no piece is selected.
PersonClicksMove(to) ==
    /\ playersTurn # ai.aiPlayer
    /\ winingReason = NoReason
    /\ ~uiLocked
    /\ ai.selectedPiece # Undefined
    /\ ai' = animateThenAttemptMove(ai, ai.selectedPiece, to, "click")
    /\ UNCHANGED <<board, playersTurn, winingReason, lastOp, result, steps, chickenHistory,
                   online, peer>>

\* The rest of the click's call once the animation delay is over
\* (play.ts:164-180, 215-221): attemptMove, uiLocked cleared, and the
\* selection cleared unless the attempt was ignored.  A failing query leaves
\* uiLocked set.
ClickApply ==
    /\ Len(ai.moves) > 0
    /\ Head(ai.moves).by = "click"
    /\ \E done \in {AnimationOver(Head(ai.moves).from, Head(ai.moves).to)} :
          IF done.threw
          THEN /\ UNCHANGED boardVars
               /\ lastOp' = "getJumps"
               /\ result' = Thrown
               /\ ai' = [ai EXCEPT !.moves = Tail(@)]
          ELSE /\ Becomes(done.state)
               /\ lastOp' = "attemptMove"
               /\ result' = [outcome |-> done.outcome, message |-> done.message]
               /\ ai' = [ai EXCEPT !.moves = Tail(@), !.uiLocked = FALSE,
                                   !.selectedPiece =
                                       IF done.outcome = "ignored" THEN @ ELSE Undefined,
                                   !.scheduled = @ \/ SignalsChange]
    /\ steps' = steps + 1
    /\ UNCHANGED <<chickenHistory, online, peer>>

---------------------------------------------------------------------------
(* The memory against oscillation.  calculateNextMove is called as its test
   calls it (part_005:108-151), on a Board set up cell by cell with
   fingerprints the caller supplies as fourth argument; and it is called by
   the computer player of a one-player game of Play, which has the chickens
   and keeps the memory (play.ts:115-127), against a person who moves the
   foxes.  The method of part_003:188 takes three parameters: the list is
   kept by the caller and not read by the search. *)

\* Where the fox stands, and where a chicken of row 2 stands: below the
\* filled upper stall it can only go sideways.  The other chickens are the
\* six of the upper stall, with or without the two at the ends of row 2.
GameFoxes == {<<2, 3>>, <<3, 4>>}
GameChickens == {<<0, 2>>, <<3, 2>>}

GameBoards ==
    {Place({f}, {c} \cup back) :
        f \in GameFoxes, c \in GameChickens,
        back \in {TopRows, TopRows \cup {<<0, 2>>, <<6, 2>>}}}

\* The fingerprints of the positions the chicken candidates of board b lead
\* to, built as part_005:143-145 builds its forbidden fingerprint.
ChildFingerprints(b) ==
    CHOOSE prints \in
        {{fingerprint(candidates[k].child) : k \in 1..Len(candidates)} :
            candidates \in {RootCandidates(createSnapshot(b), PlayerChicken)}} : TRUE

\* The lists of recent fingerprints a caller supplies on board b: none, one
\* or two of them.
SuppliedHistories(b) ==
    CHOOSE lists \in
        {({<<>>} \cup {<<f>> : f \in prints}) \cup {<<f, g>> : f \in prints, g \in prints} :
            prints \in {ChildFingerprints(b)}} : TRUE

\* The cells the person's destination clicks are made on.
GameTargets == {<<2, 1>>, <<3, 3>>, <<4, 1>>}

InitGame ==
    /\ \/ /\ board \in GameBoards \cup {HistoryTestBoard}
          /\ chickenHistory \in SuppliedHistories(board)
          /\ ai = NoAi
       \/ /\ board = StartBoard
          /\ chickenHistory = <<>>
          /\ ai = PlayState(PlayerChicken)
    /\ playersTurn = PlayerChicken
    /\ winingReason = NoReason
    /\ lastOp = "new"
    /\ result = NoResult
    /\ steps = 0
    /\ online = Offline
    /\ peer = IdlePeer

\* The effects that were due have run: Angular runs them in the change
\* detection that follows a handler or a timer, before the next one.
EffectsRan == PlayLives /\ ~ai.scheduled

\* Play is on the page, so that its handlers can be called, and the effects
\* that were due have run.
Shown == EffectsRan /\ ~ai.destroyed

NextGame ==
    \/ \E depth \in 1..MaxGameDepth : CalculateNextMove(depth)
    \/ AttemptFound
    \/ (PlayLives /\ \E depth \in 1..MaxGameDepth : EffectRun(depth))
    \/ (EffectsRan /\ AiApply)
    \/ (Shown /\ steps < MaxGameSteps /\ \E p \in PiecesToMove : PersonClicksPiece(p))
    \/ (Shown /\ steps < MaxGameSteps /\ \E to \in GameTargets : PersonClicksMove(to))
    \/ (EffectsRan /\ ClickApply)
    \/ (Shown /\ steps < MaxGameSteps /\ OnReset)

SpecGame == InitGame /\ [][NextGame]_vars

---------------------------------------------------------------------------
(* A one-player game step by step, with the search of part_003, the computer
   player on either side.  The person clicks on pieces of either side. *)

\* The Board, a service of the application's root, as the construction of
\* Play finds it: new (board.ts:114-159), or as an earlier game left it
\* after the chicken step from (3,3) to (3,2).
NewBoard == [board |-> StartBoard, playersTurn |-> PlayerChicken, winingReason |-> NoReason]
BoardsFound == {NewBoard, moveTo(NewBoard, <<3, 3>>, <<3, 2>>)}

InitOnePlayer ==
    /\ \E S \in BoardsFound :
          /\ board = S.board
          /\ playersTurn = S.playersTurn
          /\ winingReason = S.winingReason
    /\ lastOp = "new"
    /\ result = NoResult
    /\ steps = 0
    /\ chickenHistory = <<>>
    /\ ai \in {PlayState(a) : a \in Player}
    /\ online = Offline
    /\ peer = IdlePeer

\* Play.onReset within the bound on the number of operations.
ResetDuringGame ==
    /\ steps < MaxOnePlayerSteps
    /\ OnReset

NextOnePlayer ==
    \/ EffectRun(OnePlayerDepth)
    \/ (EffectsRan /\ AiApply)
    \/ (Shown /\ steps < MaxOnePlayerSteps
              /\ \E p \in PiecesOnBoard \cap ClickSources : PersonClicksPiece(p))
    \/ (Shown /\ steps < MaxOnePlayerSteps /\ \E to \in ClickTargets : PersonClicksMove(to))
    \/ (EffectsRan /\ ClickApply)
    \/ (Shown /\ ResetDuringGame)
    \/ (Shown /\ steps < MaxOnePlayerSteps /\ OnPlayAgain)
    \/ Destroyed

SpecOnePlayer == InitOnePlayer /\ [][NextOnePlayer]_vars

\* The effects are run once they are due, and the timer of a move under way
\* fires.
SpecOnePlayerLive ==
    /\ SpecOnePlayer
    /\ WF_vars(EffectRun(OnePlayerDepth))
    /\ WF_vars(EffectsRan /\ AiApply)
    /\ WF_vars(EffectsRan /\ ClickApply)

---------------------------------------------------------------------------
(* Several operations of the Board in a row, so that operations follow the
   one that recorded an outcome. *)

MaxSeriesSteps == 2

\* Set-ups with at most one fox and two chickens on the cells of AiRegion
\* (any capture leaves fewer than nine chickens, a punishment may remove
\* the last fox), and a set-up one chicken step away from a full stall.
SeriesBoards ==
    {Place(fc[1], fc[2]) :
        fc \in {gd \in (SUBSET AiRegion) \X (SUBSET AiRegion) :
                    /\ gd[1] \cap gd[2] = {}
                    /\ Cardinality(gd[1]) <= 1
                    /\ Cardinality(gd[2]) <= 2}}
    \cup {Place({<<3, 4>>}, TopRows \cup {<<2, 2>>, <<4, 2>>, <<3, 3>>})}

InitSeries ==
    /\ board \in SeriesBoards
    /\ playersTurn \in Player
    /\ winingReason = NoReason
    /\ lastOp = "new"
    /\ result = NoResult
    /\ steps = 0
    /\ chickenHistory = <<>>
    /\ ai = NoAi
    /\ online = Offline
    /\ peer = IdlePeer

NextSeries ==
    \/ /\ steps < MaxSeriesSteps
       /\ \/ \E shown \in Sources : attemptMoveCall(shown, shown)
          \/ \E selectedPiece \in Sources : moveToCall(selectedPiece)
          \/ \E selectedPiece \in Sources : jumpToCall(selectedPiece)
          \/ \E selectedPiece \in Sources : punishForJumpCall(selectedPiece)
          \/ punishForNotJumpingCall
          \/ OnReset

SpecSeries == InitSeries /\ [][NextSeries]_vars

---------------------------------------------------------------------------
(* PeerConnectionService (peer-connection.service.ts).  The PeerJS objects
   are the environment: a Peer or a DataConnection may emit any of the events
   the service listens to, at any time, also after the service has closed or
   destroyed it, and an event settles the promise of every call that is
   subscribed to it, in the order of subscription.  A call of host, join or
   tryReconnectOnce runs from one await to the next in one step; what it
   waits for is an event, the timer of withTimeout, or the wake lock.
   Whether Date.now() is past reconnectUntilTs is an input (`late`) of the
   steps that run reconnectLoop.  After each step the effects of a Play that
   read the signals of the service run (AfterService).  `steps` counts what
   the user and the network do unasked: calls, clicks, data, drops, errors
   and timeouts; what a call waits for and the timers of the reconnect loop
   come for free. *)

\* The unasked steps of a behaviour, and the highest seq of a move message.
MaxOnlineSteps == 3
MaxSeq == 2

\* The handshake message (peer-connection.service.ts:74-75, 494); the joiner
\* takes a payload that is a number (peer-connection.service.ts:506-512).
handshakeType == "hf/host-plays-as"
Handshake(hostPlaysAs) == [type |-> handshakeType, hostPlaysAs |-> hostPlaysAs]

\* PeerConnectionService.clearReconnectLoop (peer-connection.service.ts:279-287)
clearReconnectLoop(P) ==
    [P EXCEPT !.reconnecting = FALSE, !.reconnectAttempt = 0,
              !.timers = @ \ {P.reconnectTimer}, !.reconnectTimer = NoId]

\* PeerConnectionService.resetInternal (peer-connection.service.ts:265-277).
\* The calls under way keep the Peer and the DataConnection they hold.
resetInternal(P) ==
    [P EXCEPT !.connection = NoId, !.messages = NoData, !.peer = NoId]

\* PeerConnectionService.reconnectLoop up to the timer it sets
\* (peer-connection.service.ts:347-387)
reconnectLoop(P, late) ==
    IF ~P.reconnecting THEN P
    ELSE IF P.manualDisconnect THEN clearReconnectLoop(P)
    ELSE IF late THEN clearReconnectLoop([P EXCEPT !.status = "error"])
    ELSE IF P.status = "connected" THEN clearReconnectLoop(P)
    ELSE [P EXCEPT !.reconnectAttempt = @ + 1, !.created = @ + 1,
                   !.reconnectTimer = P.created + 1,
                   !.timers = @ \cup {P.created + 1}]

\* PeerConnectionService.startReconnect (peer-connection.service.ts:319-345);
\* the deadline it has just set is not over.
startReconnect(P, late) ==
    IF P.manualDisconnect THEN P
    ELSE IF P.status \notin {"connected", "connecting", "waiting-for-peer", "reconnecting"}
    THEN [P EXCEPT !.messages = NoData]
    ELSE reconnectLoop([P EXCEPT !.messages = NoData, !.reconnecting = TRUE,
                                 !.reconnectAttempt = IF P.reconnecting THEN @ ELSE 0,
                                 !.status = "reconnecting"],
                       late /\ P.reconnecting)

\* PeerConnectionService.createPeer (peer-connection.service.ts:541-587):
\* a new Peer, kept in this.peer (peer-connection.service.ts:95-96, 183-184,
\* 406).
createPeer(P) ==
    [P EXCEPT !.created = @ + 1, !.peer = P.created + 1, !.peers = @ \cup {P.created + 1}]

(* A call of host, join or tryReconnectOnce waiting at an await:
   kind   "host", "join" or "reconnect";
   at     the promise awaited: "wakeLock" (acquireWakeLock), "peerOpen"
          (waitForPeerOpen), "incoming" (the 'connection' of the peer),
          "connOpen" (waitForConnectionOpen), "handshake"
          (waitForHandshakeHostPlaysAs), "release" (releaseWakeLock);
   peer   the Peer the call holds in its constant `peer`;
   conn   the DataConnection it holds in `conn`, NoId before it has one;
   role   the branch of tryReconnectOnce taken, "none" before it is chosen;
   armed  at "connOpen": its listeners for 'close' and 'error' are still on
          the connection; the conn.off('close') and conn.off('error') of
          attachConnectionDropHandlers take them off
          (peer-connection.service.ts:291-292). *)
Flow(kind, at, p, conn, role) ==
    [kind |-> kind, at |-> at, peer |-> p, conn |-> conn, role |-> role, armed |-> TRUE]

\* The calls among `flows` that wait at one of `ats`, and the others, each
\* in the order of `flows`.
Waiting(flows, ats, p, conn) ==
    SelectSeq(flows, LAMBDA f : f.at \in ats /\ (p = NoId \/ f.peer = p)
                                            /\ (conn = NoId \/ f.conn = conn))
NotWaiting(flows, ats, p, conn) ==
    SelectSeq(flows, LAMBDA f : ~(f.at \in ats /\ (p = NoId \/ f.peer = p)
                                              /\ (conn = NoId \/ f.conn = conn)))

WithoutFlow(flows, i) == SubSeq(flows, 1, i - 1) \o SubSeq(flows, i + 1, Len(flows))

InitPeer ==
    /\ board = StartBoard
    /\ playersTurn = PlayerChicken
    /\ winingReason = NoReason
    /\ lastOp = "new"
    /\ result = NoResult
    /\ steps = 0
    /\ chickenHistory = <<>>
    /\ ai = NoAi
    /\ online = Offline
    /\ peer = IdlePeer

(* The effects of Play that read the signals of the service, run after a
   step that took the service from P to Q (part_002:171-230).  The status
   effect shows the toast and schedules the restart once, when the status
   is 'reconnecting' or 'error'; the effect that consumes messages is due
   when messages was set to data (`received`) or changed.  Without an
   online game both return at once. *)
AfterService(O, P, Q, received) ==
    IF ~O.isOnlineGame THEN O
    ELSE [O EXCEPT
             !.effectDue = @ \/ received \/ Q.messages # P.messages,
             !.disconnectToastShown = @ \/ Q.status \in {"reconnecting", "error"},
             !.restarts = IF Q.status \in {"reconnecting", "error"} /\ ~O.disconnectToastShown
                          THEN @ + 1 ELSE @]

\* A step of the service that a call or the reconnect loop waits for.
Awaited ==
    /\ lastOp' = "service"
    /\ online' = AfterService(online, peer, peer', FALSE)
    /\ UNCHANGED <<boardVars, result, steps, chickenHistory, ai>>

\* A step of the service that comes unasked; `received` says that it is a
\* 'data' event.
Unasked(received) ==
    /\ steps < MaxOnlineSteps
    /\ lastOp' = "service"
    /\ online' = AfterService(online, peer, peer', received)
    /\ steps' = steps + 1
    /\ UNCHANGED <<boardVars, result, chickenHistory, ai>>

\* PeerConnectionService.host up to its await of acquireWakeLock
\* (peer-connection.service.ts:84-98)
Host ==
    /\ \E P \in {createPeer([resetInternal(clearReconnectLoop(
                                [peer EXCEPT !.manualDisconnect = FALSE]))
                               EXCEPT !.role = "host", !.status = "creating-peer",
                                      !.disconnected = FALSE])} :
          peer' = [P EXCEPT !.flows = Append(@, Flow("host", "wakeLock", P.peer, NoId, "host"))]
    /\ Unasked(FALSE)

\* PeerConnectionService.join up to its await of acquireWakeLock
\* (peer-connection.service.ts:168-186)
Join(remotePeerId) ==
    /\ IF remotePeerId = ""
       THEN peer' = [peer EXCEPT !.status = "error", !.disconnected = FALSE]
       ELSE \E P \in {createPeer([resetInternal(clearReconnectLoop(
                                     [peer EXCEPT !.manualDisconnect = FALSE]))
                                    EXCEPT !.role = "join", !.status = "creating-peer",
                                           !.disconnected = FALSE])} :
               peer' = [P EXCEPT !.flows = Append(@, Flow("join", "wakeLock", P.peer,
                                                          NoId, "join"))]
    /\ Unasked(FALSE)

\* PeerConnectionService.disconnect (peer-connection.service.ts:236-259)
disconnect(P) ==
    [resetInternal(clearReconnectLoop([P EXCEPT !.manualDisconnect = TRUE]))
        EXCEPT !.status = "idle", !.disconnected = TRUE]

Disconnect ==
    /\ peer' = disconnect(peer)
    /\ Unasked(FALSE)

\* acquireWakeLock returns and the call subscribes to the 'open' of its
\* peer (peer-connection.service.ts:98-103, 186-191, 589-607).
WakeLockAcquired(i) ==
    /\ i \in 1..Len(peer.flows)
    /\ peer.flows[i].at = "wakeLock"
    /\ peer' = [peer EXCEPT !.flows = Append(WithoutFlow(@, i),
                                             [peer.flows[i] EXCEPT !.at = "peerOpen"])]
    /\ Awaited

\* The call f takes the connection c: this.connection is set, the data and
\* drop handlers are attached, which takes the 'close' and 'error'
\* listeners of earlier calls off c, and the call subscribes to the 'open'
\* of c (peer-connection.service.ts:122-143, 193-212, 431-439, 472-478).
Connects(P, f, c, status) ==
    [P EXCEPT !.connection = c,
              !.handlers = @ \cup {c},
              !.stale = @ \ {c},
              !.status = status,
              !.flows = Append([i \in DOMAIN P.flows |->
                                   IF P.flows[i].conn = c
                                   THEN [P.flows[i] EXCEPT !.armed = FALSE]
                                   ELSE P.flows[i]],
                               [f EXCEPT !.at = "connOpen", !.conn = c, !.armed = TRUE])]

\* The catch blocks a rejected await runs into: host and join report
\* 'error' (peer-connection.service.ts:156-161, 224-229); an attempt of the
\* reconnect loop is logged and reconnectLoop runs again
\* (peer-connection.service.ts:376-386).
Rejected(P, f, late) ==
    IF f.kind = "reconnect" THEN reconnectLoop(P, late)
    ELSE [P EXCEPT !.status = "error"]

\* The catch of waitForConnectionOpen (peer-connection.service.ts:638-649),
\* which runs when 'error' or 'close' of the connection rejects the promise.
OpenFailed(P) ==
    [P EXCEPT !.status = IF P.reconnecting /\ ~P.manualDisconnect
                         THEN "reconnecting" ELSE "error"]

\* The call f after waitForPeerOpen has resolved, up to its next await
\* (peer-connection.service.ts:103-109, 191-208, 422-439, 453-458); an
\* attempt of the reconnect loop reads this.role now.
AfterPeerOpen(P, f, late) ==
    IF f.kind = "host"
    THEN [P EXCEPT !.status = "waiting-for-peer",
                   !.flows = Append(@, [f EXCEPT !.at = "incoming"])]
    ELSE IF f.kind = "join"
    THEN Connects([P EXCEPT !.created = @ + 1], f, P.created + 1, "connecting")
    ELSE IF P.role = "join"
    THEN Connects([P EXCEPT !.created = @ + 1], [f EXCEPT !.role = "join"],
                  P.created + 1, "reconnecting")
    ELSE IF P.role = "host"
    THEN [P EXCEPT !.status = "reconnecting",
                   !.flows = Append(@, [f EXCEPT !.at = "incoming", !.role = "host"])]
    ELSE Rejected(P, f, late)

\* The call f after its peer has emitted 'connection' with c
\* (peer-connection.service.ts:122-143, 472-478)
AfterIncoming(P, f, c) ==
    Connects(P, f, c, IF f.kind = "host" THEN "connecting" ELSE "reconnecting")

\* PeerConnectionService.sendHandshakeHostPlaysAs
\* (peer-connection.service.ts:492-498): conn.send may throw, which is
\* caught; `sent` says that it did not.
sendHandshakeHostPlaysAs(P, c, sent) ==
    IF sent THEN [P EXCEPT !.sent = @ \cup {c}] ELSE P

\* setState with 'connected' at the end of a call, and for an attempt of the
\* reconnect loop clearReconnectLoop and the await of releaseWakeLock
\* (peer-connection.service.ts:148-153, 221, 447-449, 483-485).
Reports(P, f) ==
    IF f.kind = "reconnect"
    THEN clearReconnectLoop(
             [P EXCEPT !.status = "connected",
                       !.reports = @ \cup {[conn |-> f.conn, as |-> f.role]},
                       !.flows = Append(@, [f EXCEPT !.at = "release"])])
    ELSE [P EXCEPT !.status = "connected",
                   !.reports = @ \cup {[conn |-> f.conn, as |-> f.role]}]

\* The call f after waitForConnectionOpen has resolved: the host sends the
\* handshake and reports 'connected', the joiner goes on to wait for the
\* handshake (peer-connection.service.ts:139-153, 208-219, 439-445, 478-486).
AfterConnOpen(P, f, sent) ==
    IF f.role = "host"
    THEN Reports(sendHandshakeHostPlaysAs(P, f.conn, sent), f)
    ELSE [P EXCEPT !.flows = Append(@, [f EXCEPT !.at = "handshake"])]

\* The call f after the handshake message has come in
\* (peer-connection.service.ts:506-512, 215-221, 441-449)
AfterHandshake(P, f, data, late) ==
    IF data.hostPlaysAs \in Player THEN Reports(P, f) ELSE Rejected(P, f, late)

\* The call f after 'close' or 'error' of its connection
\* (peer-connection.service.ts:515-523, 620-627, 638-649)
AfterConnDrop(P, f, late) ==
    IF f.at = "connOpen" THEN Rejected(OpenFailed(P), f, late) ELSE Rejected(P, f, late)

RECURSIVE Settle(_, _, _, _, _, _)
\* The calls of `waiting` run on one after the other from the service state
\* P; `how` names the event that settles their promises.
Settle(P, waiting, how, c, arg, late) ==
    IF waiting = <<>> THEN P
    ELSE Settle(CASE how = "peerOpen" -> AfterPeerOpen(P, Head(waiting), late)
                  [] how = "incoming" -> AfterIncoming(P, Head(waiting), c)
                  [] how = "connOpen" -> AfterConnOpen(P, Head(waiting), arg)
                  [] how = "handshake" -> AfterHandshake(P, Head(waiting), arg, late)
                  [] how = "connDrop" -> AfterConnDrop(P, Head(waiting), late)
                  [] OTHER -> Rejected(P, Head(waiting), late),
                Tail(waiting), how, c, arg, late)

\* The peer p emits 'open': every call that waits in waitForPeerOpen(p)
\* runs on (peer-connection.service.ts:591-594, 604).
PeerOpened(p, late) ==
    /\ p \in peer.peers
    /\ Waiting(peer.flows, {"peerOpen"}, p, NoId) # <<>>
    /\ peer' = Settle([peer EXCEPT !.flows = NotWaiting(@, {"peerOpen"}, p, NoId)],
                      Waiting(peer.flows, {"peerOpen"}, p, NoId),
                      "peerOpen", NoId, FALSE, late)
    /\ Awaited

\* The peer p emits 'connection' with a new DataConnection: every call that
\* waits for it on p runs on with that connection
\* (peer-connection.service.ts:109-120, 458-470).
Incoming(p) ==
    /\ p \in peer.peers
    /\ Waiting(peer.flows, {"incoming"}, p, NoId) # <<>>
    /\ peer' = Settle([peer EXCEPT !.created = @ + 1,
                                   !.flows = NotWaiting(@, {"incoming"}, p, NoId)],
                      Waiting(peer.flows, {"incoming"}, p, NoId),
                      "incoming", peer.created + 1, FALSE, FALSE)
    /\ Awaited

\* The connection c emits 'open': every call that waits in
\* waitForConnectionOpen(c) runs on (peer-connection.service.ts:616-619,
\* 635); a promise whose call has timed out resolves unheard.
ConnOpened(c, sent) ==
    /\ c \in peer.handlers
    /\ Waiting(peer.flows, {"connOpen"}, NoId, c) # <<>> \/ c \in peer.stale
    /\ peer' = Settle([peer EXCEPT !.stale = @ \ {c},
                                   !.flows = NotWaiting(@, {"connOpen"}, NoId, c)],
                      Waiting(peer.flows, {"connOpen"}, NoId, c),
                      "connOpen", c, sent, FALSE)
    /\ Awaited

\* The connection c emits 'data': the data handler stores it in messages
\* (peer-connection.service.ts:313-316), and a call that waits for the
\* handshake on c takes a handshake message
\* (peer-connection.service.ts:502-513, 535).
DataArrives(c, data, late) ==
    /\ c \in peer.handlers
    /\ peer' = IF data.type = handshakeType
               THEN Settle([peer EXCEPT !.messages = data,
                                        !.received = IF data.hostPlaysAs \in Player
                                                     THEN @ \cup {c} ELSE @,
                                        !.flows = NotWaiting(@, {"handshake"}, NoId, c)],
                           Waiting(peer.flows, {"handshake"}, NoId, c),
                           "handshake", c, data, late)
               ELSE [peer EXCEPT !.messages = data]
    /\ Unasked(TRUE)

\* The calls a 'close' or 'error' of the connection c rejects: those in
\* waitForConnectionOpen(c) whose listeners are still on c, and those in
\* waitForHandshakeHostPlaysAs(c).
Dropped(f, c) ==
    /\ f.conn = c
    /\ \/ f.at = "connOpen" /\ f.armed
       \/ f.at = "handshake"

\* The connection c emits 'close' or 'error': the drop handler runs
\* startReconnect (peer-connection.service.ts:289-303), then the calls that
\* wait on c are rejected; the promise of a call that has timed out in
\* waitForConnectionOpen still runs its catch.
ConnDrop(c, late) ==
    /\ c \in peer.handlers
    /\ \E P \in {startReconnect(peer, late)} :
          peer' = Settle([(IF c \in P.stale THEN OpenFailed(P) ELSE P)
                             EXCEPT !.stale = @ \ {c},
                                    !.flows = SelectSeq(@, LAMBDA f : ~Dropped(f, c))],
                         SelectSeq(P.flows, LAMBDA f : Dropped(f, c)),
                         "connDrop", c, FALSE, late)
    /\ Unasked(FALSE)

\* 'disconnected' or 'close' of a peer (peer-connection.service.ts:576-584)
PeerDrop(late) ==
    /\ peer.peers # {}
    /\ peer' = startReconnect(peer, late)
    /\ Unasked(FALSE)

\* 'error' of the peer p: the handler of createPeer
\* (peer-connection.service.ts:563-574), then the calls that wait for the
\* 'open' or the 'connection' of p are rejected
\* (peer-connection.service.ts:111, 461, 595-598).
PeerError(p, late) ==
    /\ p \in peer.peers
    /\ \E P \in {IF peer.reconnecting /\ ~peer.manualDisconnect
                 THEN startReconnect([peer EXCEPT !.status = "reconnecting"], late)
                 ELSE [peer EXCEPT !.status = "error"]} :
          peer' = Settle([P EXCEPT !.flows = NotWaiting(@, {"peerOpen", "incoming"}, p, NoId)],
                         Waiting(P.flows, {"peerOpen", "incoming"}, p, NoId),
                         "peerError", NoId, FALSE, late)
    /\ Unasked(FALSE)

\* The timer of withTimeout rejects the await of a call
\* (peer-connection.service.ts:779-790).  The promise of
\* waitForConnectionOpen stays subscribed to the connection.
TimesOut(i, late) ==
    /\ i \in 1..Len(peer.flows)
    /\ \E f \in {peer.flows[i]} :
          /\ f.at \in {"peerOpen", "incoming", "connOpen", "handshake"}
          /\ peer' = Rejected([peer EXCEPT !.flows = WithoutFlow(@, i),
                                           !.stale = IF f.at = "connOpen" /\ f.armed
                                                     THEN @ \cup {f.conn} ELSE @],
                              f, late)
    /\ Unasked(FALSE)

\* releaseWakeLock returns to an attempt of the reconnect loop that has
\* reported 'connected'; the `finally` of the timer runs reconnectLoop
\* (peer-connection.service.ts:449-450, 485-486, 382-385).
Released(i, late) ==
    /\ i \in 1..Len(peer.flows)
    /\ peer.flows[i].at = "release"
    /\ peer' = reconnectLoop([peer EXCEPT !.flows = WithoutFlow(@, i)], late)
    /\ Awaited

\* PeerConnectionService.tryReconnectOnce up to its first await
\* (peer-connection.service.ts:389-422); `destroyed` is what this.peer says
\* of itself.
tryReconnectOnce(P, destroyed) ==
    LET Q == [P EXCEPT !.connection = NoId, !.messages = NoData]
        R == IF Q.peer = NoId \/ destroyed THEN createPeer(Q) ELSE Q
    IN [R EXCEPT !.flows = Append(@, Flow("reconnect", "peerOpen", R.peer, NoId, "none"))]

\* A timer of reconnectLoop fires (peer-connection.service.ts:376-386):
\* tryReconnectOnce up to its first await, or, after a manual disconnect,
\* its return and the reconnectLoop of the `finally`.
TimerFires(t, late, destroyed) ==
    /\ t \in peer.timers
    /\ \E P \in {[peer EXCEPT !.timers = @ \ {t}, !.reconnectTimer = NoId]} :
          peer' = IF P.manualDisconnect
                  THEN reconnectLoop(P, late)
                  ELSE tryReconnectOnce(P, destroyed)
    /\ Awaited

\* What a peer may send on a connection of the service.
PeerData ==
    {Handshake(PlayerChicken), Handshake("undefined"),
     Message("hello", 1, 0, <<0, 0>>, <<0, 0>>)}

NextPeer ==
    \/ Host
    \/ \E remotePeerId \in {"", "host-id"} : Join(remotePeerId)
    \/ Disconnect
    \/ \E i \in 1..Len(peer.flows) : WakeLockAcquired(i)
    \/ \E p \in peer.peers, late \in BOOLEAN : PeerOpened(p, late)
    \/ \E p \in peer.peers : Incoming(p)
    \/ \E c \in peer.handlers, sent \in BOOLEAN : ConnOpened(c, sent)
    \/ \E c \in peer.handlers, data \in PeerData, late \in BOOLEAN : DataArrives(c, data, late)
    \/ \E c \in peer.handlers, late \in BOOLEAN : ConnDrop(c, late)
    \/ \E late \in BOOLEAN : PeerDrop(late)
    \/ \E p \in peer.peers, late \in BOOLEAN : PeerError(p, late)
    \/ \E i \in 1..Len(peer.flows), late \in BOOLEAN : TimesOut(i, late)
    \/ \E i \in 1..Len(peer.flows), late \in BOOLEAN : Released(i, late)
    \/ \E t \in peer.timers, late \in BOOLEAN, destroyed \in BOOLEAN : TimerFires(t, late, destroyed)

SpecPeer == InitPeer /\ [][NextPeer]_vars

---------------------------------------------------------------------------
(* An online game of Play (part_002) on the PeerConnectionService above.
   The session starts when the settings of an online game are set
   (part_002:99-139), with the service reporting 'connected'; the peer is
   the environment: the connection and the Peer may emit any event, any
   message may arrive on the data channel, and send() may fail.  An effect
   runs after a signal it read in its last run has changed; the effect that
   consumes messages reads uiPieces when it starts an animation
   (part_002:484) and the animation writes it, so that effect is due again
   after it has accepted a move.  onlineWaiting is what the status effect
   makes it: the status is not 'connected' (part_002:189-190). *)

\* The identifiers the service hands out up to the end of a session; two
\* are out when it starts.
MaxIds == 4

\* The game id the host makes up (part_002:128) and another one.
HostGameId == 1
GameIds == {HostGameId, 2}

\* The pieces clicked and named in messages, and the cells they are sent to.
OnlinePieces == {<<3, 3>>, <<2, 2>>}
OnlineTargets == {<<3, 2>>, <<2, 1>>}

\* What the peer may send: hello, move and reset messages
\* (online-protocol.ts:12-34) and the handshake of the connection
\* (peer-connection.service.ts:494), which is not an online message.
RemoteMessages ==
    (({Message("hello", g, 0, <<0, 0>>, <<0, 0>>) : g \in GameIds}
      \cup {Message("reset", g, 0, <<0, 0>>, <<0, 0>>) : g \in GameIds})
      \cup {Handshake(PlayerChicken)})
      \cup {Message("move", g, seq, from, to) :
                g \in GameIds, seq \in 1..MaxSeq, from \in OnlinePieces, to \in OnlineTargets}

\* online-protocol.ts:36-63 on the messages above
isOnlineMessage(raw) == raw.type \in {"hello", "move", "reset"}

\* A call that waits for a timer: `at` is "wait" in applyRemoteMove
\* (part_002:334-336) and "animate" in animateThenAttemptMove (part_002:487).
Task(kind, at, from, to) == [kind |-> kind, at |-> at, from |-> from, to |-> to]

WithoutTask(tasks, i) == SubSeq(tasks, 1, i - 1) \o SubSeq(tasks, i + 1, Len(tasks))

\* The session as the effect of part_002:99-139 sets it up.
Session(onlineRole, hostPlaysAs) ==
    [Offline EXCEPT
        !.isOnlineGame = TRUE,
        !.onlineRole = onlineRole,
        !.localPlaysAs = IF onlineRole = "host" THEN hostPlaysAs ELSE otherPlayer(hostPlaysAs),
        !.onlineGameId = IF onlineRole = "host" THEN HostGameId ELSE NoId,
        !.effectDue = TRUE]

(* The service after host() or join() has run to its end
   (peer-connection.service.ts:84-153, 168-221): Peer 1 is open, connection
   2 is open and carries the handlers, the handshake has gone over it and
   'connected' is reported.  The joiner's messages holds the handshake
   message, which the data handler has stored. *)
Connected(onlineRole, hostPlaysAs) ==
    [IdlePeer EXCEPT
        !.status = "connected",
        !.role = onlineRole,
        !.peer = 1,
        !.peers = {1},
        !.connection = 2,
        !.handlers = {2},
        !.messages = IF onlineRole = "join" THEN Handshake(hostPlaysAs) ELSE NoData,
        !.sent = IF onlineRole = "host" THEN {2} ELSE {},
        !.received = IF onlineRole = "join" THEN {2} ELSE {},
        !.reports = {[conn |-> 2, as |-> onlineRole]},
        !.created = 2]

InitOnline ==
    /\ board = StartBoard
    /\ playersTurn = PlayerChicken
    /\ winingReason = NoReason
    /\ lastOp = "new"
    /\ result = NoResult
    /\ steps = 0
    /\ chickenHistory = <<>>
    /\ ai = NoAi
    /\ \E onlineRole \in {"host", "join"}, hostPlaysAs \in Player :
          /\ online = Session(onlineRole, hostPlaysAs)
          /\ peer = Connected(onlineRole, hostPlaysAs)

\* PeerConnectionService.send (peer-connection.service.ts:839-851); `ok`
\* says that the connection is open and conn.send does not throw.
send(P, ok) == P.status = "connected" /\ P.connection # NoId /\ ok

\* Play.restartToSelect (part_002:294-318) with the settings effect that
\* follows settings.clear() (part_002:101-113): the reset message is handed
\* to send() when there is a game id, and what send() returns is not looked
\* at; the Board is reset and the session is over.  The calls in flight and
\* the restart timers stay.  The service is disconnected (part_002:310).
restartToSelect(O, P, ok) ==
    [Offline EXCEPT
        !.uiLocked = O.uiLocked,
        !.tasks = O.tasks,
        !.restarts = O.restarts,
        !.accepted = O.accepted,
        !.sent = IF O.isOnlineGame /\ O.onlineGameId # NoId /\ send(P, ok)
                 THEN Append(O.sent, Message("reset", O.onlineGameId, 0, <<0, 0>>, <<0, 0>>))
                 ELSE O.sent]

\* The host's hello (part_002:141-169): sent once the connection is
\* reported 'connected'; when send() fails it is tried again later.
SendHello ==
    /\ online.isOnlineGame
    /\ online.onlineRole = "host"
    /\ send(peer, TRUE)
    /\ ~online.hostHelloSent
    /\ online' = [online EXCEPT
                     !.hostHelloSent = TRUE,
                     !.sent = Append(@, Message("hello", online.onlineGameId, 0,
                                                <<0, 0>>, <<0, 0>>))]
    /\ lastOp' = "hello"
    /\ UNCHANGED <<boardVars, result, steps, chickenHistory, ai, peer>>

\* Variant of applyRemoteMove that drops only a message whose seq is below
\* the last one.
applyRemoteMove_DropsOlderOnly(O, msg) ==
    IF msg.seq < O.lastRemoteSeq THEN O
    ELSE IF O.uiLocked
    THEN [O EXCEPT !.lastRemoteSeq = msg.seq, !.accepted = Append(@, msg.seq),
                   !.tasks = Append(@, Task("remote", "wait", msg.from, msg.to))]
    ELSE [O EXCEPT !.lastRemoteSeq = msg.seq, !.accepted = Append(@, msg.seq),
                   !.uiLocked = TRUE, !.effectDue = TRUE,
                   !.tasks = Append(@, Task("remote", "animate", msg.from, msg.to))]

\* Play.applyRemoteMove up to its first await (part_002:327-341, 480-487)
applyRemoteMove(O, msg) ==
    IF msg.seq <= O.lastRemoteSeq THEN O
    ELSE IF O.uiLocked
    THEN [O EXCEPT !.lastRemoteSeq = msg.seq, !.accepted = Append(@, msg.seq),
                   !.tasks = Append(@, Task("remote", "wait", msg.from, msg.to))]
    ELSE [O EXCEPT !.lastRemoteSeq = msg.seq, !.accepted = Append(@, msg.seq),
                   !.uiLocked = TRUE, !.effectDue = TRUE,
                   !.tasks = Append(@, Task("remote", "animate", msg.from, msg.to))]

\* The effect that consumes incoming messages (part_002:201-230); `ok` is
\* the input of the send() in restartToSelect.
MessageEffect(ok) ==
    /\ online.effectDue
    /\ \E raw \in {peer.messages}, O \in {[online EXCEPT !.effectDue = FALSE]} :
          IF ~online.isOnlineGame \/ ~isOnlineMessage(raw)
          THEN online' = O /\ UNCHANGED <<boardVars, chickenHistory, peer>>
          ELSE IF raw.type = "hello"
          THEN /\ online' = IF O.onlineGameId = NoId
                            THEN [O EXCEPT !.onlineGameId = raw.gameId] ELSE O
               /\ UNCHANGED <<boardVars, chickenHistory, peer>>
          ELSE IF O.onlineGameId # NoId /\ raw.gameId # O.onlineGameId
          THEN online' = O /\ UNCHANGED <<boardVars, chickenHistory, peer>>
          ELSE IF raw.type = "move"
          THEN /\ online' = applyRemoteMove(O, raw)
               /\ UNCHANGED <<boardVars, chickenHistory, peer>>
          ELSE /\ online' = restartToSelect(O, peer, ok)
               /\ peer' = disconnect(peer)
               /\ Becomes(reset(BoardState))
               /\ chickenHistory' = <<>>
    /\ lastOp' = "consume"
    /\ UNCHANGED <<result, steps, ai>>

\* Play.clickedPiece (part_002:413-425)
OnlineClickedPiece(p) ==
    /\ steps < MaxOnlineSteps
    /\ online.isOnlineGame
    /\ IF \/ online.localPlaysAs # playersTurn
          \/ winingReason # NoReason
          \/ online.uiLocked
          \/ peer.status # "connected"
       THEN UNCHANGED <<boardVars, online, result>>
       ELSE \E jumps \in {getJumps(board, p)},
               allJumps \in {getAllJumps(board, playersTurn)},
               allMoves \in {getAllMoves(board, playersTurn)} :
               /\ online' = [online EXCEPT !.selectedPiece = p]
               /\ UNCHANGED <<board, playersTurn>>
               /\ IF jumps.threw \/ allJumps.threw
                  THEN /\ UNCHANGED winingReason
                       /\ result' = Thrown
                  ELSE /\ winingReason' =
                             IF /\ playersTurn = PlayerFox
                                /\ Len(allMoves) = 0
                                /\ Len(allJumps.opts) = 0
                             THEN NoMovesForFoxes ELSE winingReason
                       /\ UNCHANGED result
    /\ lastOp' = "clickedPiece"
    /\ steps' = steps + 1
    /\ UNCHANGED <<chickenHistory, ai, peer>>

\* Play.clickedMove up to the await of animateThenAttemptMove
\* (part_002:427-435, 480-487)
OnlineClickedMove(to) ==
    /\ steps < MaxOnlineSteps
    /\ online.isOnlineGame
    /\ online' = IF \/ online.localPlaysAs # playersTurn
                    \/ winingReason # NoReason
                    \/ online.uiLocked
                    \/ peer.status # "connected"
                    \/ online.selectedPiece = Undefined
                 THEN online
                 ELSE [online EXCEPT
                          !.uiLocked = TRUE,
                          !.tasks = Append(@, Task("local", "animate",
                                                   online.selectedPiece, to))]
    /\ lastOp' = "clickedMove"
    /\ steps' = steps + 1
    /\ UNCHANGED <<boardVars, result, chickenHistory, ai, peer>>

\* Play.clearSelection (part_002:352-358)
clearSelection(O) == [O EXCEPT !.selectedPiece = Undefined]

\* What follows attemptMove in clickedMove (part_002:435-460): in an online
\* game with a game id the accepted move is sent with the next seq, and when
\* send() returns false a restart is scheduled.
AfterLocalMove(O, task, outcome, ok) ==
    IF outcome = "ignored" THEN O
    ELSE IF O.isOnlineGame /\ O.onlineGameId # NoId
    THEN IF ok
         THEN clearSelection(
                  [O EXCEPT !.localSeq = @ + 1,
                            !.sent = Append(@, Message("move", O.onlineGameId, O.localSeq + 1,
                                                       task.from, task.to))])
         ELSE [O EXCEPT !.localSeq = @ + 1, !.restarts = @ + 1]
    ELSE clearSelection(O)

\* What follows attemptMove in applyRemoteMove (part_002:341-349)
AfterRemoteMove(O, outcome) ==
    IF outcome = "ignored" THEN [O EXCEPT !.restarts = @ + 1]
    ELSE clearSelection(O)

\* A timer of a call in flight fires.  After the wait of applyRemoteMove
\* the animation starts (part_002:336-341, 480-487); after the animation
\* attemptMove is called with the Board's lists as they are now, uiLocked is
\* cleared and the caller goes on (part_002:489-505).  A failing query
\* leaves uiLocked set.
TaskStep(i, ok) ==
    /\ i \in 1..Len(online.tasks)
    /\ \E task \in {online.tasks[i]} :
          IF task.at = "wait"
          THEN /\ online' = [online EXCEPT !.uiLocked = TRUE,
                                           !.tasks[i] = Task(task.kind, "animate",
                                                             task.from, task.to)]
               /\ lastOp' = "animate"
               /\ UNCHANGED <<boardVars, result>>
          ELSE \E availableMoves \in {getMoves(board, playersTurn, task.from)},
                  availableJumps \in {getJumps(board, task.from)},
                  allJumps \in {getAllJumps(board, playersTurn)} :
                  IF availableJumps.threw \/ allJumps.threw
                  THEN /\ UNCHANGED boardVars
                       /\ lastOp' = "getJumps"
                       /\ result' = Thrown
                       /\ online' = [online EXCEPT !.tasks = WithoutTask(@, i)]
                  ELSE \E r \in {attemptMove(BoardState, task.from, task.to, availableMoves,
                                             availableJumps.opts, allJumps.opts)} :
                          /\ Becomes(r.state)
                          /\ lastOp' = IF task.kind = "local" THEN "localMove" ELSE "remoteMove"
                          /\ result' = [outcome |-> r.outcome, message |-> r.message]
                          /\ \E O \in {[online EXCEPT !.uiLocked = FALSE,
                                                      !.tasks = WithoutTask(@, i)]} :
                                online' = IF task.kind = "local"
                                          THEN AfterLocalMove(O, task, r.outcome, send(peer, ok))
                                          ELSE AfterRemoteMove(O, r.outcome)
    /\ UNCHANGED <<steps, chickenHistory, ai, peer>>

\* The timer of scheduleRestartToSelect fires (part_002:320-325)
RestartFires(ok) ==
    /\ online.restarts > 0
    /\ online' = [restartToSelect(online, peer, ok) EXCEPT !.restarts = @ - 1]
    /\ peer' = disconnect(peer)
    /\ Becomes(reset(BoardState))
    /\ chickenHistory' = <<>>
    /\ lastOp' = "restart"
    /\ UNCHANGED <<result, steps, ai>>

\* Play.onPlayAgain in an online game (part_002:368-373)
OnlinePlayAgain(ok) ==
    /\ steps < MaxOnlineSteps
    /\ online.isOnlineGame
    /\ online' = restartToSelect(online, peer, ok)
    /\ peer' = disconnect(peer)
    /\ Becomes(reset(BoardState))
    /\ chickenHistory' = <<>>
    /\ lastOp' = "onPlayAgain"
    /\ steps' = steps + 1
    /\ UNCHANGED <<result, ai>>

\* Play.onReset in an online game (part_002:360-366): the local Board is
\* reset and nothing is sent.
OnlineReset ==
    /\ steps < MaxOnlineSteps
    /\ online.isOnlineGame
    /\ online' = clearSelection(online)
    /\ Becomes(reset(BoardState))
    /\ chickenHistory' = <<>>
    /\ lastOp' = "onReset"
    /\ steps' = steps + 1
    /\ UNCHANGED <<result, ai, peer>>

\* The service has handed out no more than MaxIds identifiers.
WithinIds == peer'.created <= MaxIds

NextOnline ==
    \/ SendHello
    \/ \E ok \in BOOLEAN : MessageEffect(ok)
    \/ \E p \in OnlinePieces : OnlineClickedPiece(p)
    \/ \E to \in OnlineTargets : OnlineClickedMove(to)
    \/ \E i \in 1..MaxOnlineSteps, ok \in BOOLEAN : TaskStep(i, ok)
    \/ \E ok \in BOOLEAN : RestartFires(ok)
    \/ \E ok \in BOOLEAN : OnlinePlayAgain(ok)
    \/ OnlineReset
    \/ \E c \in peer.handlers, data \in RemoteMessages, late \in BOOLEAN :
          online.isOnlineGame /\ DataArrives(c, data, late) /\ WithinIds
    \/ \E c \in peer.handlers, late \in BOOLEAN :
          online.isOnlineGame /\ ConnDrop(c, late) /\ WithinIds
    \/ \E late \in BOOLEAN : online.isOnlineGame /\ PeerDrop(late) /\ WithinIds
    \/ \E p \in peer.peers, late \in BOOLEAN :
          online.isOnlineGame /\ PeerError(p, late) /\ WithinIds
    \/ \E t \in peer.timers, late \in BOOLEAN, destroyed \in BOOLEAN :
          online.isOnlineGame /\ TimerFires(t, late, destroyed) /\ WithinIds
    \/ \E p \in peer.peers, late \in BOOLEAN :
          online.isOnlineGame /\ PeerOpened(p, late) /\ WithinIds
    \/ \E p \in peer.peers : online.isOnlineGame /\ Incoming(p) /\ WithinIds
    \/ \E c \in peer.handlers, sent \in BOOLEAN : online.isOnlineGame /\ ConnOpened(c, sent)
    \/ \E i \in 1..Len(peer.flows), late \in BOOLEAN :
          online.isOnlineGame /\ TimesOut(i, late) /\ WithinIds
    \/ \E i \in 1..Len(peer.flows), late \in BOOLEAN :
          online.isOnlineGame /\ Released(i, late) /\ WithinIds

SpecOnline == InitOnline /\ [][NextOnline]_vars

---------------------------------------------------------------------------
(* Vocabulary of the claims *)

\* A step in which the timer of the computer player's call of
\* animateThenAttemptMove fires and its attemptMove is made or fails.
AiApplies ==
    /\ Len(ai.moves) > 0
    /\ Head(ai.moves).by = "effect"
    /\ ai'.moves = Tail(ai.moves)

Pieces(b) == foxes(b) + chickens(b)

Elems(seq) == {seq[i] : i \in 1..Len(seq)}

\* The cell one further step from p in the direction of its neighbour c.
Beyond(p, c) == <<2 * c[1] - p[1], 2 * c[2] - p[2]>>

\* One capture step of the rules (spec 4.2): from p over the adjacent chicken
\* c (full adjacency rule) onto the valid Empty cell beyond it.
CaptureStep(b, p, c) ==
    /\ c \in Elems(getConnectedCells(p, FALSE))
    /\ b[c] = CHICKEN
    /\ Beyond(p, c) \in Cells
    /\ b[Beyond(p, c)] = EMPTY

CanCapture(b, p) == \E c \in Cells : CaptureStep(b, p, c)

RECURSIVE ChainExists(_, _, _, _)
\* Some sequence of capture steps leads from p to `end` and jumps over exactly
\* the cells of K, each once.
ChainExists(b, p, end, K) ==
    IF K = {} THEN p = end
    ELSE \E c \in K :
            /\ CaptureStep(b, p, c)
            /\ ChainExists([b EXCEPT ![c] = EMPTY], Beyond(p, c), end, K \ {c})

FoxCells == {p \in Cells : board[p] = FOX}

\* What attemptMove returns when called for the cell `shown` with destination
\* `to`, the lists being those the Board's queries return for `shown`.
Attempt(selectedPiece, moves, jumps, all, to) ==
    attemptMove(BoardState, selectedPiece, to, moves, jumps.opts, all.opts)

---------------------------------------------------------------------------
(* C1.  Claim: over any sequence of attemptMove / moveTo / jumpTo / punish
   calls the number of pieces (Fox cells plus Chicken cells) never increases
   from one state to the next.  (reset, which the claim does not list, is
   left out.) *)
C1_PieceCountNeverIncreases ==
    [][lastOp' # "reset" => Pieces(board') <= Pieces(board)]_vars

(* C2.  Claim: every attemptMove call that returns moved, jumped or punished
   flips side-to-move exactly once, and every call that returns ignored leaves
   it unchanged, whatever the selectedPiece argument is. *)
C2_TurnFlipsOncePerOutcome ==
    [][lastOp' = "attemptMove" =>
        /\ result'.outcome \in {"moved", "jumped", "punished"}
               => playersTurn' = changePlayer(playersTurn)
        /\ result'.outcome = "ignored" => playersTurn' = playersTurn]_vars

(* C3, as claimed: on Fox's turn, whenever getAllJumps() is non-empty, any
   attemptMove whose destination is a plain Empty cell (no jump landing of the
   selected piece) returns punished. *)
C3_AnyEmptyDestinationPunished ==
    playersTurn = PlayerFox =>
        \A all \in {getAllJumps(board, playersTurn)} :
            (~all.threw /\ Len(all.opts) > 0) =>
                \A shown \in Sources :
                    \A moves \in {getMoves(board, playersTurn, shown)},
                       jumps \in {getJumps(board, shown)} :
                        ~jumps.threw =>
                            \A to \in Cells :
                                (board[to] = EMPTY /\ FindJump(jumps.opts, to) = 0)
                                    => Attempt(shown, moves, jumps, all, to).outcome = "punished"

(* C3, amended: on Fox's turn, whenever getAllJumps() is non-empty, any
   attemptMove whose destination is a legal step move of the selected piece
   (an Empty cell getMoves offers for it) returns punished, with the
   mandatory-jump message, and never moved. *)
C3_StepMoveWhileJumpAvailablePunished ==
    playersTurn = PlayerFox =>
        \A all \in {getAllJumps(board, playersTurn)} :
            (~all.threw /\ Len(all.opts) > 0) =>
                \A shown \in Sources :
                    \A selectedPiece \in {shown, Undefined},
                       moves \in {getMoves(board, playersTurn, shown)},
                       jumps \in {getJumps(board, shown)} :
                        ~jumps.threw =>
                            \A to \in Elems(moves) :
                                \A r \in {Attempt(selectedPiece, moves, jumps, all, to)} :
                                    /\ r.outcome = "punished"
                                    /\ r.message = MandatoryMessage

\* C3's case has happened: a fox stepped although a jump was available and
\* attemptMove answered with the mandatory-jump punishment.
C3_Witness ==
    /\ lastOp = "attemptMove"
    /\ result.outcome = "punished"
    /\ result.message = MandatoryMessage
    /\ playersTurn = PlayerChicken

(* C4.  Claim: every capture step of every option getJumps returns for a fox
   is genuine.  Stated on what an option carries: every coordinate of its
   capture list holds a Chicken when the query is made, and its last step
   jumps from a valid cell over an adjacent cell (full adjacency rule) onto
   the landing: the most recent capture is the head of the list, and the cell
   the step starts from is the one beyond it as seen from the landing. *)
C4_EveryCaptureStepGenuine ==
    \A p \in FoxCells :
        \A jumps \in {getJumps(board, p)} :
            ~jumps.threw =>
                \A o \in Elems(jumps.opts) :
                    /\ \A c \in Elems(o.toBeRemovedChickens) : board[c] = CHICKEN
                    /\ Beyond(o.end, o.toBeRemovedChickens[1]) \in Cells
                    /\ o.toBeRemovedChickens[1] \in
                           Elems(getConnectedCells(Beyond(o.end, o.toBeRemovedChickens[1]), FALSE))
                    /\ board[o.end] = EMPTY

(* C5.  Claim: a Terminal option lists exactly the chickens jumped over from
   the original origin to the final landing, so jumpTo empties all of them and
   lowers the chicken count by exactly the length of the chain, for chains of
   any length.  Stated for the Terminal options whose listed cells all hold
   chickens: some chain of capture steps leads from the fox to the option's
   landing over exactly the listed cells, and jumpTo lowers the chicken count
   by the number of listed cells. *)
C5_TerminalListsWholeChain ==
    \A p \in FoxCells :
        \A jumps \in {getJumps(board, p)} :
            ~jumps.threw =>
                \A o \in Elems(jumps.opts) :
                    (o.good /\ \A c \in Elems(o.toBeRemovedChickens) : board[c] = CHICKEN) =>
                        /\ ChainExists(board, p, o.end, Elems(o.toBeRemovedChickens))
                        /\ chickens(jumpTo(BoardState, p, o).board)
                               = chickens(board) - Len(o.toBeRemovedChickens)

(* C6, as claimed: getJumps returns only Terminal chains; a chain in progress
   (an intermediate landing from which a further capture is available) is
   never itself returned. *)
C6_OnlyTerminalReturned ==
    \A p \in FoxCells :
        \A jumps \in {getJumps(board, p)} :
            ~jumps.threw => \A o \in Elems(jumps.opts) : o.good

(* C6, amended: when a fox's capture step lands where a further capture is
   available, getJumps returns that one-capture option too, tagged Continuable
   (good = false), besides the longer chains; the one-capture option is tagged
   Terminal exactly when no further capture is available from its landing. *)
C6_IntermediateReturnedAsContinuable ==
    \A p \in FoxCells :
        \A jumps \in {getJumps(board, p)} :
            ~jumps.threw =>
                \A c \in Cells :
                    CaptureStep(board, p, c) =>
                        \E o \in Elems(jumps.opts) :
                            /\ o.from = p
                            /\ o.end = Beyond(p, c)
                            /\ o.toBeRemovedChickens = <<c>>
                            /\ o.good = ~CanCapture([board EXCEPT ![c] = EMPTY], Beyond(p, c))

\* C6's case: a fox whose first capture lands where a second one is available;
\* getJumps returns the one-capture option as Continuable and a two-capture
\* Terminal chain through the same landing.
C6_Witness ==
    \E p \in FoxCells :
        \E jumps \in {getJumps(board, p)} :
            /\ ~jumps.threw
            /\ \E i, j \in 1..Len(jumps.opts) :
                   /\ i < j
                   /\ ~jumps.opts[i].good
                   /\ Len(jumps.opts[i].toBeRemovedChickens) = 1
                   /\ CanCapture([board EXCEPT ![jumps.opts[i].toBeRemovedChickens[1]] = EMPTY],
                                 jumps.opts[i].end)
                   /\ jumps.opts[j].good
                   /\ Len(jumps.opts[j].toBeRemovedChickens) = 2
                   /\ jumps.opts[j].toBeRemovedChickens[2] = jumps.opts[i].toBeRemovedChickens[1]

(* C7.  Claim: a fox with exactly one capturable adjacent chicken and no
   follow-up capture from the landing gets exactly one option from getJumps:
   Terminal, landing two steps away in that direction, capturing exactly that
   chicken. *)
C7_SingleCaptureSingleOption ==
    \A p \in FoxCells :
        \A c \in Cells :
            (/\ CaptureStep(board, p, c)
             /\ \A d \in Cells : CaptureStep(board, p, d) => d = c
             /\ ~CanCapture([board EXCEPT ![c] = EMPTY], Beyond(p, c)))
                => getJumps(board, p) =
                       Returned(<<[from |-> p, good |-> TRUE,
                                   toBeRemovedChickens |-> <<c>>, end |-> Beyond(p, c)]>>)

(* C8.  Claim: for a chicken at any valid cell (x,y), getMoves returns exactly
   the valid Empty cells among (x-1,y), (x+1,y), (x,y-1): the adjacency rule
   applied is that of the piece being moved. *)
C8_ChickenMovesOrthogonalNoBackward ==
    \A p \in Cells :
        board[p] = CHICKEN =>
            Elems(getMoves(board, playersTurn, p)) =
                {q \in {<<p[1] - 1, p[2]>>, <<p[1] + 1, p[2]>>, <<p[1], p[2] - 1>>} \cap Cells :
                    board[q] = EMPTY}

(* C9.  Claim: attemptMove returns 'jumped' and applies the jump whenever the
   destination is the landing of a Terminal entry of the selected fox's
   getJumps list and is not one of its step moves, even when another entry of
   the list has the same landing. *)
C9_TerminalLandingJumped ==
    \A sel \in FoxCells \cap Sources :
        \A moves \in {getMoves(board, playersTurn, sel)},
           jumps \in {getJumps(board, sel)},
           all \in {getAllJumps(board, playersTurn)} :
            (~jumps.threw /\ ~all.threw) =>
                \A o \in Elems(jumps.opts) :
                    (o.good /\ o.end \notin Elems(moves)) =>
                        \E r \in {Attempt(sel, moves, jumps, all, o.end)} :
                            /\ r.outcome = "jumped"
                            /\ \E t \in Elems(jumps.opts) :
                                   /\ t.good
                                   /\ t.end = o.end
                                   /\ r.state = jumpTo(BoardState, sel, t)

(* C10, as claimed: when the destination matches a Continuable entry of the
   selected fox's getJumps list, attemptMove returns 'punished', removes the
   selected fox and changes nothing else on the board, and the turn flips. *)
C10_ContinuableLandingPunished ==
    \A sel \in FoxCells \cap Sources :
        \A moves \in {getMoves(board, playersTurn, sel)},
           jumps \in {getJumps(board, sel)},
           all \in {getAllJumps(board, playersTurn)} :
            (~jumps.threw /\ ~all.threw) =>
                \A o \in Elems(jumps.opts) :
                    ~o.good =>
                        \E r \in {Attempt(sel, moves, jumps, all, o.end)} :
                            /\ r.outcome = "punished"
                            /\ r.state.board = [board EXCEPT ![sel] = EMPTY]
                            /\ r.state.playersTurn = changePlayer(playersTurn)

(* C10, amended: when the destination matches a Continuable entry of the
   selected fox's getJumps list and no Terminal entry of that list, attemptMove
   returns 'punished' with the keep-jumping message, removes the selected fox
   and changes nothing else on the board (no chicken captured, nothing placed
   on the destination), and the turn flips once. *)
C10_OnlyContinuableLandingPunished ==
    \A sel \in FoxCells \cap Sources :
        \A moves \in {getMoves(board, playersTurn, sel)},
           jumps \in {getJumps(board, sel)},
           all \in {getAllJumps(board, playersTurn)} :
            (~jumps.threw /\ ~all.threw) =>
                \A o \in Elems(jumps.opts) :
                    (~o.good /\ \A t \in Elems(jumps.opts) : t.end = o.end => ~t.good) =>
                        \E r \in {Attempt(sel, moves, jumps, all, o.end)} :
                            /\ r.outcome = "punished"
                            /\ r.message = KeepJumpingMessage
                            /\ r.state.board = [board EXCEPT ![sel] = EMPTY]
                            /\ r.state.playersTurn = changePlayer(playersTurn)

\* C10's case has happened: attemptMove answered with the keep-jumping
\* punishment, the only fox went off the board and both chickens stayed (two
\* chickens give one two-capture chain, so the landing of its first step
\* carries no Terminal entry).
C10_Witness ==
    /\ lastOp = "attemptMove"
    /\ result.outcome = "punished"
    /\ result.message = KeepJumpingMessage
    /\ winingReason = FoxesLose
    /\ foxes(board) = 0
    /\ chickens(board) = 2

(* C11.  Claim: when a step move is attempted while getAllJumps is non-empty,
   exactly one piece is removed, and it is a fox that is the origin of an
   entry of getAllJumps and had a capture available; the selected piece is not
   relocated and no other cell changes. *)
C11_MandatoryJumpPunishmentRemovesJumper ==
    \A all \in {getAllJumps(board, playersTurn)} :
        (~all.threw /\ Len(all.opts) > 0) =>
            \A allowed \in {{[board EXCEPT ![f] = EMPTY] :
                                f \in {g \in FoxCells :
                                          /\ \E o \in Elems(all.opts) : o.from = g
                                          /\ CanCapture(board, g)}}} :
                \A shown \in Sources :
                    \A moves \in {getMoves(board, playersTurn, shown)},
                       jumps \in {getJumps(board, shown)} :
                        ~jumps.threw =>
                            \A to \in Elems(moves) :
                                \A selectedPiece \in {shown, Undefined} :
                                    Attempt(selectedPiece, moves, jumps, all, to).state.board
                                        \in allowed

\* C11's case has happened: the mandatory-jump punishment took one of two
\* foxes off the board, and the game goes on.
C11_Witness ==
    /\ lastOp = "attemptMove"
    /\ result.message = MandatoryMessage
    /\ foxes(board) = 1
    /\ chickens(board) >= 1
    /\ winingReason = NoReason

(* C12.  Claim: when attemptMove returns 'ignored', nothing changes: every
   cell, the side to move and the terminal outcome are the same before and
   after the call (attemptMove returns its result, it does not throw). *)
C12_IgnoredChangesNothing ==
    [][(lastOp' = "attemptMove" /\ result'.outcome = "ignored")
           => (board' = board /\ playersTurn' = playersTurn /\ winingReason' = winingReason)]_vars

\* C12's case has happened: on Fox's turn an attemptMove on a set-up board
\* with both kinds of piece was answered 'ignored'.
C12_Witness ==
    /\ lastOp = "attemptMove"
    /\ result.outcome = "ignored"
    /\ playersTurn = PlayerFox
    /\ foxes(board) >= 1
    /\ chickens(board) >= 1

(* C13.  Claim: from any reachable state reset restores exactly the canonical
   layout (Chicken on every valid cell with y >= 3, Fox at (2,2) and (4,2),
   every other valid cell Empty), makes Chicken the side to move and clears the
   terminal outcome; a second reset changes nothing more. *)
C13_ResetRestoresCanonicalLayout ==
    [][lastOp' = "reset" =>
          /\ \A p \in Cells :
                board'[p] = IF p[2] >= 3 THEN CHICKEN
                            ELSE IF p \in {<<2, 2>>, <<4, 2>>} THEN FOX
                            ELSE EMPTY
          /\ playersTurn' = PlayerChicken
          /\ winingReason' = NoReason
          /\ reset([board |-> board', playersTurn |-> playersTurn',
                    winingReason |-> winingReason'])
                 = [board |-> board', playersTurn |-> playersTurn',
                    winingReason |-> winingReason']]_vars

\* C13's case has happened: reset has run and the board shows the layout of a
\* new game with Chicken to move.
C13_Witness ==
    /\ lastOp = "reset"
    /\ board = StartBoard
    /\ playersTurn = PlayerChicken
    /\ winingReason = NoReason

(* C14.  Claim: moveTo(from, to) relocates the piece: afterwards `to` holds
   exactly the piece kind `from` held before the call, `from` is Empty, every
   other cell is unchanged, and the side to move has flipped once.  Stated for
   every cell `from` of the central block and every destination getMoves
   offers for it. *)
C14_MoveRelocatesThePiece ==
    \A from \in Sources :
        \A to \in Elems(getMoves(board, playersTurn, from)) :
            \E after \in {moveTo(BoardState, from, to)} :
                /\ after.board = [board EXCEPT ![from] = EMPTY, ![to] = board[from]]
                /\ after.playersTurn = changePlayer(playersTurn)

(* C15.  Claim: after any capture (jumpTo) that leaves fewer than 9 chickens on
   the board, winingReason is the chickens-lose outcome, set in the step in
   which the count drops below 9. *)
C15_TooFewChickensSetsOutcome ==
    [][((lastOp' = "jumpTo" \/ (lastOp' = "attemptMove" /\ result'.outcome = "jumped"))
            /\ chickens(board') < chickens(board)
            /\ chickens(board') < 9)
           => winingReason' = ChickensLose]_vars

\* C15's case has happened: a capture took the chicken count from 9 or more
\* to 8 and the outcome is set.
C15_Witness ==
    /\ lastOp = "jumpTo"
    /\ chickens(board) = 8
    /\ foxes(board) = 1
    /\ winingReason = ChickensLose

(* C16.  Claim: whenever a move makes the number of chickens on stall cells
   (y <= 1, or y = 2 with 2 <= x <= 4) reach 9, winingReason is the
   chickens-win outcome in that same step. *)
C16_FullStallSetsOutcome ==
    [][((lastOp' = "moveTo" \/ (lastOp' = "attemptMove" /\ result'.outcome = "moved"))
            /\ Cardinality({p \in Cells : /\ board[p] = CHICKEN
                                          /\ (p[2] <= 1 \/ (p[2] = 2 /\ p[1] \in 2..4))}) < 9
            /\ Cardinality({p \in Cells : /\ board'[p] = CHICKEN
                                          /\ (p[2] <= 1 \/ (p[2] = 2 /\ p[1] \in 2..4))}) >= 9)
           => winingReason' = ChickensWin]_vars

\* C16's case has happened: a chicken's move filled the ninth stall cell and
\* the outcome is set.
C16_Witness ==
    /\ lastOp = "moveTo"
    /\ chickensInStall(board) = 9
    /\ playersTurn = PlayerFox
    /\ winingReason = ChickensWin

(* C17.  Claim: whenever a punishment removes the last fox (the fox count
   falls below 1), winingReason is the foxes-lose outcome in that same step. *)
C17_LastFoxPunishedSetsOutcome ==
    [][((lastOp' \in {"punishForJump", "punishForNotJumping"}
             \/ (lastOp' = "attemptMove" /\ result'.outcome = "punished"))
            /\ foxes(board) >= 1
            /\ foxes(board') < 1)
           => winingReason' = FoxesLose]_vars

\* C17's case has happened: the punishment for not jumping took the last fox
\* off a board that still has chickens, and the outcome is set.
C17_Witness ==
    /\ lastOp = "punishForNotJumping"
    /\ foxes(board) = 0
    /\ chickens(board) >= 1
    /\ winingReason = FoxesLose

\* The cells holding a piece of the side to move.
SideCells == {p \in Cells : board[p] = IF playersTurn = PlayerChicken THEN CHICKEN ELSE FOX}

(* C18, as claimed: getAllMoves is the union of getMoves(p) over every piece p
   of the side to move, for both sides; getAllJumps is the union of getJumps
   over all foxes on Fox's turn and empty on Chicken's turn. *)
C18_AllMovesUnionOverSideToMove ==
    /\ Elems(getAllMoves(board, playersTurn))
           = UNION {Elems(getMoves(board, playersTurn, p)) : p \in SideCells}
    /\ \A all \in {getAllJumps(board, playersTurn)} :
           ~all.threw =>
               Elems(all.opts) = IF playersTurn = PlayerChicken THEN {}
                                 ELSE UNION {Elems(getJumps(board, p).opts) : p \in FoxCells}

(* C18, amended: on Fox's turn getAllMoves is the union of getMoves(p) over
   the foxes and getAllJumps the union of getJumps(p) over the foxes; on
   Chicken's turn both are empty. *)
C18_AllMovesAndJumpsAreTheFoxes ==
    \A all \in {getAllJumps(board, playersTurn)} :
        IF playersTurn = PlayerChicken
        THEN /\ getAllMoves(board, playersTurn) = <<>>
             /\ all = Returned(<<>>)
        ELSE /\ Elems(getAllMoves(board, playersTurn))
                    = UNION {Elems(getMoves(board, playersTurn, p)) : p \in FoxCells}
             /\ ~all.threw =>
                    Elems(all.opts) = UNION {Elems(getJumps(board, p).opts) : p \in FoxCells}

\* C18's case: on Fox's turn two foxes each contribute a step move and a
\* jump option to the two lists.
C18_Witness ==
    /\ playersTurn = PlayerFox
    /\ Cardinality(FoxCells) = 2
    /\ \A p \in FoxCells :
           /\ getMoves(board, playersTurn, p) # <<>>
           /\ ~getJumps(board, p).threw
           /\ getJumps(board, p).opts # <<>>

RECURSIVE TerminalEnds(_, _)
\* The cells where a chain of capture steps of a fox standing on `origin` can
\* end, the chain being at p on board b: no further capture is available there.
TerminalEnds(b, p) ==
    IF ~CanCapture(b, p) THEN {p}
    ELSE UNION {TerminalEnds([b EXCEPT ![c] = EMPTY], Beyond(p, c)) :
                    c \in {d \in Cells : CaptureStep(b, p, d)}}

\* The {from, landing} pairs of the Terminal jumps of the position.
TerminalJumps(b) ==
    UNION {{<<p, e>> : e \in TerminalEnds(b, p)} :
               p \in {q \in Cells : b[q] = FOX /\ CanCapture(b, q)}}

(* C19.  Claim: for the fox side and any search depth, whenever at least one
   Terminal jump exists for any fox in the position, calculateNextMove returns
   the {from, landing} of a Terminal jump and never a step move; when exactly
   one Terminal jump exists it returns exactly that jump. *)
C19_FoxSearchReturnsTerminalJump ==
    \A jumps \in {TerminalJumps(board)} :
        jumps # {} =>
            \A depth \in 0..MaxDepth :
                \E move \in {calculateNextMove(board, depth, PlayerFox)} :
                    /\ <<move.from, move.to>> \in jumps
                    /\ move.to \notin Elems(getConnectedCells(move.from, FALSE))
                    /\ Cardinality(jumps) = 1 => jumps = {<<move.from, move.to>>}

\* C19's case has happened: the search, called for the fox, answered a
\* position with a capture, and its caller has carried the capture out.
C19_Witness ==
    /\ lastOp = "aiMove"
    /\ result.outcome = "jumped"
    /\ playersTurn = PlayerChicken
    /\ foxes(board) >= 1

\* The least and the greatest number of a non-empty finite set.
Least(S) == CHOOSE v \in S : \A w \in S : v <= w
Greatest(S) == CHOOSE v \in S : \A w \in S : v >= w

RECURSIVE PlainValue(_, _, _)
\* The minimax value of a position with `player` to move, searched `depth`
\* plies deep without any cut-off: the fox takes the least value of its
\* children, the chickens the greatest, and a position with no move or no
\* depth left has its static score.
PlainValue(snap, depth, player) ==
    IF depth <= 0 THEN scoreForChickens(snap)
    ELSE \* bound once: the children of the position
         CHOOSE out \in
            {IF Len(children) = 0 THEN scoreForChickens(snap)
             ELSE IF player = PlayerFox
                  THEN Least({PlainValue(children[k], depth - 1, otherPlayer(player)) :
                                  k \in 1..Len(children)})
                  ELSE Greatest({PlainValue(children[k], depth - 1, otherPlayer(player)) :
                                     k \in 1..Len(children)}) :
                children \in {IF player = PlayerFox THEN FoxChildren(snap)
                              ELSE ChickenChildren(snap)}} : TRUE

\* The order in which a cell's neighbours are enumerated
\* (board-matrix.ts:124-137), as offsets, and the place of an offset in it.
DirectionOrder ==
    << <<-1, 0>>, <<1, 0>>, <<0, -1>>, <<0, 1>>,
       <<1, 1>>, <<-1, 1>>, <<1, -1>>, <<-1, -1>> >>
DirIndex(p, q) ==
    CHOOSE i \in 1..Len(DirectionOrder) : DirectionOrder[i] = <<q[1] - p[1], q[2] - p[2]>>

\* The place of a cell in a row-major scan of the grid.
RowMajor(p) == p[2] * BoardSize + p[1]

\* Step moves listed by source cell in row-major order and, for one source,
\* in the adjacency order of its targets.
StepsInOrder(moves) ==
    \A k, l \in 1..Len(moves) :
        k < l =>
            \/ RowMajor(moves[k].from) < RowMajor(moves[l].from)
            \/ /\ moves[k].from = moves[l].from
               /\ DirIndex(moves[k].from, moves[k].to) < DirIndex(moves[l].from, moves[l].to)

\* Jumps listed by source cell in row-major order and, for one source, in the
\* adjacency order of their first captured chicken.
JumpsInOrder(jumps) ==
    \A k, l \in 1..Len(jumps) :
        k < l =>
            \/ RowMajor(jumps[k].from) < RowMajor(jumps[l].from)
            \/ /\ jumps[k].from = jumps[l].from
               /\ DirIndex(jumps[k].from,
                           jumps[k].toBeRemovedChickens[Len(jumps[k].toBeRemovedChickens)])
                    <= DirIndex(jumps[l].from,
                                jumps[l].toBeRemovedChickens[Len(jumps[l].toBeRemovedChickens)])

\* The candidate at place i is the first one of `values` with the best value
\* for `player`.
FirstBest(values, i, player) ==
    /\ i \in 1..Len(values)
    /\ \A j \in 1..Len(values) :
          IF player = PlayerFox THEN values[i] <= values[j] ELSE values[i] >= values[j]
    /\ \A j \in 1..(i - 1) : values[j] # values[i]

(* C20.  Claim: calculateNextMove(board, depth, side) returns the first
   candidate, in the deterministic enumeration order (source cells row-major,
   then the fixed adjacency order per cell), whose minimax value at depth-1
   is best for the side (minimum for Fox, maximum for Chicken); a later
   candidate with an equal value never replaces an earlier one. *)
C20_SearchReturnsFirstBestCandidate ==
    \A side \in {PlayerFox, PlayerChicken} :
        \A snap \in {createSnapshot(board)} :
            /\ \A foxMoves \in {allFoxMoves(snap)} :
                  StepsInOrder(foxMoves.stepMoves) /\ JumpsInOrder(foxMoves.jumps)
            /\ StepsInOrder(allChickenMoves(snap))
            /\ \A candidates \in {RootCandidates(snap, side)} :
                  Len(candidates) > 0 =>
                      \A depth \in 0..MaxDepth :
                          \A values \in {[k \in 1..Len(candidates) |->
                                             PlainValue(candidates[k].child, depth - 1,
                                                        otherPlayer(side))]} :
                              \E move \in {calculateNextMove(board, depth, side)} :
                                  \E i \in 1..Len(candidates) :
                                      /\ FirstBest(values, i, side)
                                      /\ move.from = candidates[i].from
                                      /\ move.to = candidates[i].to

\* C20's case has happened: after the move the search found the side to
\* move has two candidates of equal, best value at the deepest search, and
\* the search answers with the earlier of them.
C20_Witness ==
    /\ lastOp = "aiMove"
    /\ \E candidates \in {RootCandidates(createSnapshot(board), playersTurn)} :
          \E values \in {[k \in 1..Len(candidates) |->
                             PlainValue(candidates[k].child, MaxDepth - 1,
                                        otherPlayer(playersTurn))]} :
              \E i, j \in 1..Len(candidates) :
                  /\ FirstBest(values, i, playersTurn)
                  /\ i < j
                  /\ values[j] = values[i]
                  /\ <<candidates[i].from, candidates[i].to>>
                        # <<candidates[j].from, candidates[j].to>>
                  /\ \E move \in {calculateNextMove(board, MaxDepth, playersTurn)} :
                        move.from = candidates[i].from /\ move.to = candidates[i].to

\* The candidates of `candidates` whose position is none of the fingerprints
\* of `history`, by their places.
FreshCandidates(candidates, history) ==
    {k \in 1..Len(candidates) :
        \A print \in {fingerprint(candidates[k].child)} :
            \A h \in 1..Len(history) : print # history[h]}

\* The history is told by the rule of play.ts:126 across a step: emptied by a
\* reset, a new position in front of the old entries after a chicken move of
\* the computer player that was not ignored, untouched otherwise.
HistoryStep ==
    IF lastOp' = "reset" /\ steps' # steps THEN chickenHistory' = <<>>
    ELSE IF /\ AiApplies
            /\ lastOp' = "aiMove"
            /\ Head(ai.moves).player = PlayerChicken
            /\ result'.outcome # "ignored"
    THEN /\ Len(chickenHistory') >= 1
         /\ chickenHistory'[1] = fingerprintBoardForHistory(board')
         /\ \A h \in 2..Len(chickenHistory') : chickenHistory'[h] = chickenHistory[h - 1]
    ELSE chickenHistory' = chickenHistory

\* A step in which a search for the chickens returns its move: a direct call
\* of calculateNextMove, or the call of the effect of a computer player that
\* has the chickens (play.ts:115-120).
ChickenSearchReturns ==
    /\ Len(ai'.moves) = Len(ai.moves) + 1
    /\ ai'.moves[Len(ai'.moves)].by \in {"search", "effect"}
    /\ playersTurn' = PlayerChicken

(* C21.  Claim: at the root of a chicken-side search every candidate whose
   resulting snapshot fingerprint equals one of the (at most 2) recent
   fingerprints supplied by the caller is excluded before selection; if that
   would exclude every candidate, the unfiltered candidate set is used
   instead.  The caller's memory holds at most the 2 most recent post-move
   fingerprints and is emptied by a reset.  So the move a chicken search
   returns is a root candidate, and one that leads to none of the supplied
   fingerprints whenever some candidate does. *)
C21_RecentPositionsExcluded ==
    /\ [](Len(chickenHistory) <= 2)
    /\ [][ChickenSearchReturns =>
            \A candidates \in {RootCandidates(createSnapshot(board'), PlayerChicken)} :
                \A fresh \in {FreshCandidates(candidates, chickenHistory')} :
                    \A move \in {ai'.moves[Len(ai'.moves)]} :
                        Len(candidates) > 0 =>
                            \E k \in 1..Len(candidates) :
                                /\ move.from = candidates[k].from
                                /\ move.to = candidates[k].to
                                /\ fresh # {} => k \in fresh]_vars
    /\ [][HistoryStep]_vars

\* The nine cells of the stall.
StallCells == TopRows \cup {<<2, 2>>, <<3, 2>>, <<4, 2>>}

RECURSIVE SumOver(_, _)
\* The sum of count[e] over the elements e of S.
SumOver(S, count) ==
    IF S = {} THEN 0
    ELSE LET e == CHOOSE x \in S : TRUE
         IN count[e] + SumOver(S \ {e}, count)

RECURSIVE TerminalChainCount(_, _)
\* The number of capture chains of a fox, now at p on board b, that end where
\* no further capture is available.
TerminalChainCount(b, p) ==
    IF ~CanCapture(b, p) THEN 1
    ELSE \* bound once: the chickens the fox can capture next
         CHOOSE out \in
            {SumOver(next, [c \in next |->
                               TerminalChainCount([b EXCEPT ![c] = EMPTY], Beyond(p, c))]) :
                next \in {{d \in Cells : CaptureStep(b, p, d)}}} : TRUE

\* The number of Terminal fox jumps available on board b.
Danger(b) ==
    CHOOSE out \in
        {SumOver(jumpers, [p \in jumpers |-> TerminalChainCount(b, p)]) :
            jumpers \in {{q \in Cells : b[q] = FOX /\ CanCapture(b, q)}}} : TRUE

\* The base of the leaf score of board b.
ScoreBase(b) ==
    IF chickens(b) < 9 THEN 0
    ELSE IF Cardinality({p \in StallCells : b[p] = CHICKEN}) = 9 THEN 1000
    ELSE 2 * chickens(b) + 3 * Cardinality({p \in StallCells : b[p] = CHICKEN})

(* C22.  Claim: for every snapshot, the leaf score equals
   base + 0.5*inStall - (5 if danger > 0 else 0) - min(danger, 6), where base
   is 0 when fewer than 9 chickens are alive, 1000 when exactly 9 chickens are
   in the stall, and 2*alive + 3*inStall otherwise, and danger is the number
   of Terminal fox jumps available in the position.  Both sides are doubled,
   the model counting the score in halves. *)
C22_LeafScoreFormula ==
    \A danger \in {Danger(board)} :
        \A inStall \in {Cardinality({p \in StallCells : board[p] = CHICKEN})} :
            scoreForChickens(createSnapshot(board))
                = 2 * ScoreBase(board) + inStall
                    - (IF danger > 0 THEN 2 * 5 ELSE 0) - 2 * Min(danger, 6)

\* C22's case has happened: the move the search found has been made, nine or more
\* chickens are alive and some fox has a Terminal jump, so that every term of
\* the score counts.
C22_Witness ==
    /\ lastOp = "aiMove"
    /\ chickens(board) >= 9
    /\ Cardinality({p \in StallCells : board[p] = CHICKEN}) \in 1..8
    /\ Danger(board) > 0

\* A jump option as origin, landing and set of captured cells.
JumpTriple(o) == <<o.from, o.end, Elems(o.toBeRemovedChickens)>>

\* The snapshot of the board holds the piece of every valid cell.
SnapshotHoldsBoard ==
    \A snap \in {createSnapshot(board)} : \A p \in Cells : snap[idx(p)] = board[p]

\* The snapshot generator offers every piece the step destinations that
\* Board.getMoves offers it on its own turn.
SnapshotStepsAgree ==
    \A snap \in {createSnapshot(board)} :
        \A p \in Cells :
            /\ board[p] = CHICKEN =>
                  Elems(getMovesForChicken(snap, p)) = Elems(getMoves(board, PlayerChicken, p))
            /\ board[p] = FOX =>
                  Elems(getMovesForFox(snap, p).moves) = Elems(getMoves(board, PlayerFox, p))

\* The jumps of the snapshot generator are the Terminal options of
\* Board.getJumps, for every fox.
SnapshotJumpsAgree ==
    \A snap \in {createSnapshot(board)} :
        \A p \in Cells :
            board[p] = FOX =>
                \E r \in {getJumps(board, p)}, jumps \in {getMovesForFox(snap, p).jumps} :
                    /\ ~r.threw
                    /\ {JumpTriple(jumps[k]) : k \in 1..Len(jumps)}
                          = {JumpTriple(r.opts[k]) :
                                k \in {l \in 1..Len(r.opts) : r.opts[l].good}}

(* C24.  Claim: for every board position, the Snapshot move generator agrees
   with the Rule Engine: a snapshot taken from the Board has the same piece on
   each of the 33 valid cells, getMovesForChicken and getMovesForFox(...).moves
   return the same destinations as Board.getMoves for that piece on its own
   turn, and getMovesForFox(...).jumps is exactly the set of Terminal options
   of Board.getJumps (same origin, landing and captured cells). *)
C24_SnapshotGeneratorAgreesWithBoard ==
    SnapshotHoldsBoard /\ SnapshotStepsAgree /\ SnapshotJumpsAgree

\* The neighbours of a valid cell: left, right and up always, down unless
\* orthogonalOnly, the four diagonals unless orthogonalOnly or x+y is odd,
\* kept when they are cells of the cross.
Neighbours(p, orthogonalOnly) ==
    ({<<p[1] - 1, p[2]>>, <<p[1] + 1, p[2]>>, <<p[1], p[2] - 1>>}
        \cup (IF orthogonalOnly THEN {} ELSE {<<p[1], p[2] + 1>>})
        \cup (IF ~orthogonalOnly /\ (p[1] + p[2]) % 2 = 0
              THEN {<<p[1] + 1, p[2] + 1>>, <<p[1] - 1, p[2] + 1>>,
                    <<p[1] + 1, p[2] - 1>>, <<p[1] - 1, p[2] - 1>>}
              ELSE {}))
    \cap Cells

\* The cells of the board that hold a piece.
Occupied == {p \in Cells : board[p] # EMPTY}

\* The first definition of Cell.getConnectedCells and getConnectedPoints
\* return the neighbours, for every cell holding a piece and both settings.
AdjacencyInUse ==
    \A p \in Occupied : \A orthogonalOnly \in BOOLEAN :
        /\ Elems(getConnectedCells(p, orthogonalOnly)) = Neighbours(p, orthogonalOnly)
        /\ Elems(getConnectedPoints(p, orthogonalOnly)) = Neighbours(p, orthogonalOnly)

(* C25.  Claim: for every valid cell (x,y), the adjacency candidates are
   (x-1,y), (x+1,y), (x,y-1) always, (x,y+1) only when not orthogonalOnly, and
   the four diagonal neighbours only when not orthogonalOnly and x+y is even,
   filtered to the 33 valid cells of the cross; with orthogonalOnly no
   diagonal is ever returned, on any cell.  Stated of the three definitions
   of the adjacency in the source, for the cells that hold a piece. *)
C25_AdjacencyOfEveryCell ==
    /\ AdjacencyInUse
    /\ \A p \in Occupied : \A orthogonalOnly \in BOOLEAN :
          Elems(getConnectedCellsSecond(p, orthogonalOnly)) = Neighbours(p, orthogonalOnly)


---------------------------------------------------------------------------
\* The operations of the Board called with a coordinate off the board.
OutsideOps ==
    {"getMoves outside", "getJumps outside", "moveTo outside", "jumpTo outside",
     "punishForJump outside"}

\* The queries with a coordinate off the board fail with an error and change
\* nothing.
OutsideQueriesFail ==
    [][lastOp' \in {"getMoves outside", "getJumps outside"} =>
           /\ result' = TypeError
           /\ UNCHANGED boardVars]_vars

\* C26: a query (getMoves, getJumps) or a mutation (moveTo, jumpTo, the
\* punishments) called with a coordinate outside the 33 cells fails with an
\* error, and the call changes neither the side to move, nor a cell, nor the
\* outcome of the game.
C26_OutsideCoordinateFailsFast ==
    [][lastOp' \in OutsideOps =>
           /\ result' = TypeError
           /\ UNCHANGED boardVars]_vars

---------------------------------------------------------------------------
\* The piece a side moves.
PieceOf(player) == IF player = PlayerFox THEN FOX ELSE CHICKEN

\* A move that can be played for `player` on board b: it takes a piece of
\* that side to another cell, which is empty.
Usable(b, player, move) ==
    /\ move.from \in Cells /\ move.to \in Cells
    /\ b[move.from] = PieceOf(player)
    /\ move.to # move.from
    /\ b[move.to] = EMPTY

\* The sides that have no candidate at the root on the board as it stands.
NoCandidates == {player \in Player : Len(RootCandidates(createSnapshot(board), player)) = 0}

\* Below the root, a side without candidates gets the leaf evaluation of the
\* position, at every depth.
InnerPlyFallsBackToLeaf ==
    \A player \in NoCandidates : \A depth \in 0..MaxDepth :
        minimax(createSnapshot(board), depth, player, NegativeInfinity, PositiveInfinity)
            = scoreForChickens(createSnapshot(board))

\* C27: the search never ends in an error or an unusable result: where the
\* side searched for has no candidate, at the root as at any other ply, the
\* position's leaf evaluation stands in, and what the search returns is
\* still a move that can be played.
C27_EmptyCandidateSetNeverUnusable ==
    /\ InnerPlyFallsBackToLeaf
    /\ \A player \in NoCandidates : \A depth \in 0..MaxDepth :
          Usable(board, player, calculateNextMove(board, depth, player))

---------------------------------------------------------------------------
\* A sequence without a repeated element.
NoRepeat(seq) == \A i, j \in 1..Len(seq) : seq[i] = seq[j] => i = j

\* A chain on board b: its captures are chickens of b, each listed once, so
\* there are no more of them than chickens on the board.
ChainBounded(b, captured) ==
    /\ NoRepeat(captured)
    /\ \A k \in 1..Len(captured) : captured[k] \in Cells /\ b[captured[k]] = CHICKEN
    /\ Len(captured) <= chickens(b)

\* The snapshot generator returns, for every fox, chains that capture each
\* chicken at most once.
GeneratorChainsBounded ==
    \A p \in FoxCells :
        \A jumps \in {getMovesForFox(createSnapshot(board), p).jumps} :
            \A k \in 1..Len(jumps) : ChainBounded(board, jumps[k].toBeRemovedChickens)

\* C28: getJumps for a fox and getAllJumps for the foxes return on every
\* board, and every chain they list captures each chicken of the board at
\* most once, so that no chain is longer than the number of chickens; the
\* same holds for the snapshot generator.
C28_JumpEnumerationTerminates ==
    /\ GeneratorChainsBounded
    /\ ~getAllJumps(board, PlayerFox).threw
    /\ \A p \in FoxCells :
          \A availableJumps \in {getJumps(board, p)} :
              /\ ~availableJumps.threw
              /\ \A k \in 1..Len(availableJumps.opts) :
                    ChainBounded(board, availableJumps.opts[k].toBeRemovedChickens)

---------------------------------------------------------------------------
\* The step taken is the attempt of the move a caller of the search holds,
\* for a side to move that has a candidate at the root, the move being what
\* the search returns for the Board as it stands: the search's answer is
\* handed to attemptMove, or the queries made for it fail.
AiPlayedWithCandidates ==
    /\ Len(ai.moves) > 0
    /\ Head(ai.moves).by = "search"
    /\ ai'.moves = Tail(ai.moves)
    /\ winingReason = NoReason
    /\ Len(RootCandidates(createSnapshot(board), playersTurn)) > 0
    /\ \E depth \in 0..MaxDepth :
          calculateNextMove(board, depth, playersTurn)
              = [from |-> Head(ai.moves).from, to |-> Head(ai.moves).to]

\* The Board after the step holds the child snapshot of a root candidate
\* that the search returns at some depth.
BoardBecomesChosenChild ==
    \E candidates \in {RootCandidates(createSnapshot(board), playersTurn)} :
        \E k \in 1..Len(candidates) :
            /\ createSnapshot(board') = candidates[k].child
            /\ \E depth \in 0..MaxDepth :
                  calculateNextMove(board, depth, playersTurn)
                      = [from |-> candidates[k].from, to |-> candidates[k].to]

\* C29: when the side to move has a legal action, the move the search returns,
\* attempted on the Board with the Board's own getMoves, getJumps and
\* getAllJumps, is 'moved' or 'jumped', and the Board's cells afterwards are
\* the child snapshot the search built for that candidate.
C29_ChosenMoveIsPlayedAsSearched ==
    [][AiPlayedWithCandidates =>
           /\ result'.outcome \in {"moved", "jumped"}
           /\ BoardBecomesChosenChild]_vars

---------------------------------------------------------------------------
\* No fox of the board has an empty neighbour to step to or a chicken to
\* capture.
FoxSideStuck ==
    \A p \in FoxCells :
        /\ \A q \in Neighbours(p, FALSE) : board[q] # EMPTY
        /\ ~CanCapture(board, p)

\* Where the handler of play.ts gets as far as its probe, the outcome is
\* recorded exactly when it is Fox's turn and the fox side is stuck; where it
\* returns before, nothing is recorded.
ProbeReachedIsRight ==
    [][lastOp' = "clickedPiece" /\ steps' = steps + 1 =>
           IF result' = Probed
           THEN winingReason' = NoMovesForFoxes
                    <=> (playersTurn = PlayerFox /\ FoxSideStuck)
           ELSE winingReason' = winingReason]_vars

\* C30: a click made while the game is undecided records 'No moves for
\* foxes! Chickens win!' when it is Fox's turn and no fox has a step or a
\* jump, and records it in no other case.
C30_StuckFoxRecordedOnFoxTurn ==
    [][/\ lastOp' \in {"clickedPiece", "clickedPiece earlier"}
       /\ steps' = steps + 1
       /\ winingReason = NoReason
       => (winingReason' = NoMovesForFoxes
               <=> (playersTurn = PlayerFox /\ FoxSideStuck))]_vars

---------------------------------------------------------------------------
\* It is the computer player's turn in an undecided game.
AiToMove == playersTurn = ai.aiPlayer /\ winingReason = NoReason

\* C31: in a one-player game, whenever it is the computer player's turn and
\* no outcome is recorded, eventually the turn passes to the person or an
\* outcome is recorded, also where the computer player has nothing to play.
C31_AiTurnAlwaysEnds ==
    AiToMove ~> ~AiToMove

---------------------------------------------------------------------------
\* At most one call of animateThenAttemptMove waits for its timer, so at most
\* one search or move of the computer player is under way.
OneAiTaskAtATime == Len(ai.moves) <= 1

\* The move whose timer fires is attempted on the turn of the side the
\* effect searched it for (the aiPlayer of play.ts:107), in an undecided game.
AppliedOnItsTurn ==
    playersTurn = Head(ai.moves).player /\ winingReason = NoReason

\* C32: in a one-player game at most one search or move of the computer
\* player is under way at a time, and its move is attempted only in a state
\* in which it is the computer player's turn and no outcome is recorded,
\* whatever happened since the search.
C32_AiMoveAppliedOnAiTurnOnly ==
    [][/\ OneAiTaskAtATime'
       /\ AiApplies => AppliedOnItsTurn]_vars

---------------------------------------------------------------------------
\* C33: once an outcome is recorded, winingReason stays set through every
\* later moveTo, jumpTo, punishment and attemptMove; only reset clears it.
C33_OutcomeStaysUntilReset ==
    [][winingReason # NoReason =>
           IF lastOp' = "reset"
           THEN winingReason' = NoReason
           ELSE winingReason' # NoReason]_vars

\* The outcome that a capture or a punishment recorded is still there after
\* a later operation of another kind, which cannot have recorded it.
C33_Witness ==
    \/ winingReason = ChickensLose /\ lastOp \in {"moveTo", "punishForJump"}
    \/ winingReason = FoxesLose /\ lastOp \in {"moveTo", "jumpTo"}

---------------------------------------------------------------------------
\* The candidate an exhaustive search picks at the root: the first whose
\* value, searched depth - 1 plies deep without cut-off, is best for the side.
PlainChoice(candidates, depth, side) ==
    CHOOSE out \in
        {CHOOSE i \in 1..Len(candidates) :
             \E p \in valued :
                 /\ p[1] = i
                 /\ \A q \in valued :
                       /\ IF side = PlayerFox THEN p[2] <= q[2] ELSE p[2] >= q[2]
                       /\ q[1] < i => q[2] # p[2] :
            valued \in {{<<k, PlainValue(candidates[k].child, Max(0, depth - 1),
                                         otherPlayer(side))>> :
                            k \in 1..Len(candidates)}}} : TRUE

\* In a search of the chickens two plies deep a branch is cut: under a
\* child after the first, a reply of the fox that is not the last one scores
\* no more than the best of the earlier children.
CutOffHappens(snap) ==
    \E children \in {ChickenChildren(snap)} :
        \E j \in 2..Len(children) :
            \E replies \in {FoxChildren(children[j])} :
                \E k \in 1..(Len(replies) - 1) :
                    scoreForChickens(replies[k])
                        <= Greatest({PlainValue(children[i], 1, PlayerFox) : i \in 1..(j - 1)})

\* C34: for the position on the board, every depth and both sides, minimax
\* started with the window (-infinity, +infinity) returns the value of the
\* exhaustive search, and calculateNextMove returns the move the exhaustive
\* search picks.
C34_PruningKeepsValueAndMove ==
    \A side \in Player : \A depth \in 0..MaxDepth :
        \A snap \in {createSnapshot(board)} :
            /\ minimax(snap, depth, side, NegativeInfinity, PositiveInfinity)
                   = PlainValue(snap, depth, side)
            /\ \A candidates \in {RootCandidates(snap, side)} :
                  Len(candidates) > 0 =>
                      \E i \in {PlainChoice(candidates, depth, side)} :
                          calculateNextMove(board, depth, side)
                              = [from |-> candidates[i].from, to |-> candidates[i].to]

\* A position reached by the move the search found, in which the search
\* of the chickens cuts a branch off.
C34_Witness ==
    /\ lastOp = "aiMove"
    /\ CutOffHappens(createSnapshot(board))

---------------------------------------------------------------------------
\* The attempts of the reconnect loop that wait at an await.
ReconnectAttempts == {i \in 1..Len(peer.flows) : peer.flows[i].kind = "reconnect"}

\* C37: after disconnect() and until host() or join() is called again the
\* status is 'idle', and no timer and no attempt of the reconnect loop is
\* pending.
C37_IdleAfterDisconnect ==
    peer.disconnected =>
        /\ peer.status = "idle"
        /\ peer.timers = {}
        /\ ReconnectAttempts = {}

\* C38: however many drop events fire, at most one timer or attempt of the
\* reconnect loop is pending at any time.
C38_OneReconnectPending ==
    Cardinality(peer.timers) + Cardinality(ReconnectAttempts) <= 1

\* C39: whenever 'connected' is reported, the handshake message has been
\* sent (host) or received (joiner) on the connection the report is about;
\* this holds for host(), join() and every attempt of the reconnect loop.
C39_ConnectedOnlyAfterHandshake ==
    \A r \in peer.reports :
        /\ r.as = "host" => r.conn \in peer.sent
        /\ r.as = "join" => r.conn \in peer.received

---------------------------------------------------------------------------
\* The highest seq accepted so far, -1 when none was.
Highest(seqs) ==
    IF Len(seqs) = 0 THEN -1
    ELSE CHOOSE m \in {seqs[i] : i \in 1..Len(seqs)} :
             \A i \in 1..Len(seqs) : seqs[i] <= m

\* The effect consumes a move message whose seq is not above the highest
\* seq accepted.
ConsumesOldMove ==
    /\ lastOp' = "consume"
    /\ online.effectDue
    /\ online.isOnlineGame
    /\ peer.messages.type = "move"
    /\ peer.messages.seq <= Highest(online.accepted)

\* C35: a move message whose seq is less than or equal to the highest seq
\* accepted is dropped: the Board stays as it is and no call of attemptMove
\* is started for it; so no seq is accepted twice.
C35_OldSeqDropped ==
    [][/\ ConsumesOldMove =>
              /\ UNCHANGED boardVars
              /\ online'.tasks = online.tasks
              /\ online'.accepted = online.accepted
       /\ \A i, j \in 1..Len(online'.accepted) :
              i < j => online'.accepted[i] # online'.accepted[j]]_vars

\* A remote move was accepted and applied to the Board, and the effect has
\* then run on a move message of this game with a seq that is not higher.
C35_Witness ==
    /\ lastOp = "consume"
    /\ online.isOnlineGame
    /\ online.tasks = <<>>
    /\ online.accepted # <<>>
    /\ peer.messages.type = "move"
    /\ peer.messages.gameId = online.onlineGameId
    /\ peer.messages.seq <= Highest(online.accepted)
    /\ board # StartBoard

\* The step applies a local move that attemptMove accepts, in an online game.
LocalMoveAccepted ==
    /\ lastOp' = "localMove"
    /\ Len(online'.tasks) < Len(online.tasks)
    /\ online.isOnlineGame
    /\ result'.outcome # "ignored"

\* C36: a step that applies an accepted local move in an online game sends
\* a move message with the next sequence number or schedules a restart.
C36_AcceptedMoveSentOrRestart ==
    [][LocalMoveAccepted =>
           \/ /\ Len(online'.sent) = Len(online.sent) + 1
              /\ online'.sent[Len(online'.sent)].type = "move"
              /\ online'.sent[Len(online'.sent)].seq = online.localSeq + 1
           \/ online'.restarts = online.restarts + 1]_vars
====
